---- MODULE Spec2Model ----
(***************************************************************************)
(* Retraction Radar: the resumable batch runner of code.gs, the reference  *)
(* resolvers of the browser front end, and the status merger.              *)
(*                                                                         *)
(* Encodings used throughout:                                              *)
(*  - a text that is a DOI is a sequence of tokens; a token is a resolver  *)
(*    prefix, a "doi:" scheme, a blank, or a piece of a DOI body, so that  *)
(*    trimming, prefix stripping and lower-casing are computed, not        *)
(*    assumed;                                                             *)
(*  - a spreadsheet cell holding a number or "" is <<n>> or <<>>;          *)
(*  - a joined text (reason bits joined by " | ", DOIs joined by ", ") is  *)
(*    the sequence of its parts; a part is a tuple whose first element is  *)
(*    the fixed text and whose other elements are the numbers printed in   *)
(*    it.                                                                  *)
(***************************************************************************)
EXTENDS Integers, Sequences, FiniteSets, TLC

VARIABLES
    sheet,      \* code.gs: the data rows of the active sheet (columns K..O)
    pc,         \* code.gs: per execution, where the runner is
    mode,       \* code.gs: per execution, "next" (processNextBatch) or "all"
    limit,      \* code.gs: processBatch_'s parameter limit
    data,       \* code.gs: processBatch_'s snapshot of the rows (line 100)
    idx,        \* code.gs: processBatch_'s loop variable i (1-based here)
    processed,  \* code.gs: processBatch_'s counter
    elapsed,    \* code.gs: Date.now() - startTime of the current processBatch_
    allElapsed, \* code.gs: Date.now() - start of processAllRemaining
    rwCache,    \* code.gs: RW_CACHE of the execution
    brk,        \* code.gs: why the last processBatch_ left its loop
    batchRows,  \* history: rows processed by the current processBatch_, in order
    last,       \* history: provider traffic of the row processed last
    selected,   \* history: per row, how often it was selected since the last reset
    inflight,   \* code.gs: processBatch_'s local result, computed and not yet written
    merge,      \* app.js: one call of getCombinedRetractionInfoForDoi
    resolve,    \* part_000, app.js, code.gs: one resolution of a reference list
    classify,   \* app.js, part_000: the classification of one reference
    rwLoad,     \* app.js, code.gs: the Retraction Watch index of one lifetime
    calc,       \* one application of a text function (normalizeDoi, parseCsvLine)
    report      \* app.js, part_000: the counts, the table and the export of a page

vars == <<sheet, pc, mode, limit, data, idx, processed, elapsed, allElapsed,
          rwCache, brk, batchRows, last, selected, inflight, merge,
          resolve, classify, rwLoad, calc, report>>

runnerVars == <<sheet, pc, mode, limit, data, idx, processed, elapsed,
                allElapsed, rwCache, brk, batchRows, last, selected, inflight>>

browserVars == <<merge, resolve, classify, rwLoad, calc, report>>

(* No page is open: nothing is being merged.                               *)
NoMerge == [pc |-> "closed"]

(* No page is open: nothing is being resolved.                             *)
NoResolve == [pc |-> "closed"]

(* No page is open: no reference is being classified.                      *)
NoClassify == [pc |-> "closed"]

(* No page is open and no execution runs: no index is being loaded.        *)
NoRwLoad == [pc |-> "closed"]

(* No function is being applied.                                           *)
NoCalc == [pc |-> "closed"]

(* No page is open: nothing is reported.                                   *)
NoReport == [pc |-> "closed"]

----------------------------------------------------------------------------
(* code.gs: configuration *)

BATCH_SIZE == 5
MAX_RUNTIME_MS == 300000
PER_DOI_SLEEP_MS == 1500
SAFETY_MARGIN_MS == 20000
batchSizeRefs == 40
maxRetries == 2
baseDelayMs == 3000

----------------------------------------------------------------------------
(* Bounds of the model *)

MaxRows == 3
MaxLimit == 2
SlowCallMs == 140000

----------------------------------------------------------------------------
(* Texts that are DOIs *)

ResolverPrefixes == {"https://doi.org/", "http://doi.org/", "HTTPS://DOI.ORG/"}
DxResolverPrefixes == {"https://dx.doi.org/", "http://dx.doi.org/"}
SchemePrefixes == {"doi:", "DOI:"}
Blank == " "

ToLowerToken(t) ==
    CASE t = "HTTPS://DOI.ORG/" -> "https://doi.org/"
      [] t = "DOI:" -> "doi:"
      [] t = "10.1/A" -> "10.1/a"
      [] t = "10.1/B" -> "10.1/b"
      [] OTHER -> t

ToLower(s) == [i \in 1..Len(s) |-> ToLowerToken(s[i])]

RECURSIVE TrimLeft(_)
TrimLeft(s) == IF s # <<>> /\ Head(s) = Blank THEN TrimLeft(Tail(s)) ELSE s

RECURSIVE TrimRight(_)
TrimRight(s) ==
    IF s # <<>> /\ s[Len(s)] = Blank THEN TrimRight(SubSeq(s, 1, Len(s) - 1)) ELSE s

Trim(s) == TrimRight(TrimLeft(s))

StripFirst(s, prefixes) == IF s # <<>> /\ Head(s) \in prefixes THEN Tail(s) ELSE s

normalizeDoi_(doi) ==
    IF doi = <<>> THEN <<>>
    ELSE ToLower(StripFirst(StripFirst(Trim(doi), ResolverPrefixes), SchemePrefixes))

----------------------------------------------------------------------------
(* code.gs: what UrlFetchApp.fetch can do on one call *)

Exc == [kind |-> "exc", code |-> 0, json |-> "none"]
Http(code) == [kind |-> "resp", code |-> code, json |-> "none"]
BadJson == [kind |-> "resp", code |-> 200, json |-> "invalid"]
NullJson == [kind |-> "resp", code |-> 200, json |-> "null"]
WorkOk(retr, refs) ==
    [kind |-> "resp", code |-> 200, json |-> "object",
     is_retracted |-> retr, referenced_works |-> refs]
RefsOk(results) ==
    [kind |-> "resp", code |-> 200, json |-> "object",
     hasResults |-> TRUE, results |-> results]
RefsNoResults ==
    [kind |-> "resp", code |-> 200, json |-> "object",
     hasResults |-> FALSE, results |-> <<>>]

(* A script is what the provider answers to the successive attempts of one  *)
(* fetchWithRetry_: first the transient failures, then the final answer.   *)
Script(transient, final) == [transient |-> transient, final |-> final]

OutcomeAt(script, attempt) ==
    IF attempt < Len(script.transient)
    THEN (IF script.transient[attempt + 1] = "exc" THEN Exc ELSE Http(429))
    ELSE script.final

ErrorText(label, what) ==
    CASE label = "OpenAlex work" /\ what = "network" -> "OpenAlex work network error: E"
      [] label = "OpenAlex work" /\ what = "429" -> "OpenAlex work HTTP 429 (rate limited)"
      [] label = "OpenAlex work" /\ what = "unknown" -> "OpenAlex work unknown fetch failure"
      [] label = "OpenAlex references" /\ what = "network" -> "OpenAlex references network error: E"
      [] label = "OpenAlex references" /\ what = "429" -> "OpenAlex references HTTP 429 (rate limited)"
      [] OTHER -> "OpenAlex references unknown fetch failure"

FetchFailed(label, what, attempt, sleeps) ==
    [failed |-> TRUE, error |-> ErrorText(label, what), response |-> Exc,
     calls |-> attempt + 1, sleeps |-> sleeps]

RetryAfterFailure(attempt) == attempt # maxRetries

NextDelayConstant(delayMs) == delayMs

NextDelay(delayMs) == delayMs * 2

RateLimitedOrNotFound(code) == code \in {429, 404}

(* line 533 *)
RateLimited(code) == code = 429

RECURSIVE FetchAttempt(_, _, _, _, _)
FetchAttempt(script, label, attempt, delayMs, sleeps) ==
    IF attempt > maxRetries
    THEN [failed |-> TRUE, error |-> ErrorText(label, "unknown"), response |-> Exc,
          calls |-> attempt, sleeps |-> sleeps]
    ELSE LET o == OutcomeAt(script, attempt)
         IN  IF o.kind = "exc"
             THEN IF RetryAfterFailure(attempt)
                  THEN FetchAttempt(script, label, attempt + 1, NextDelay(delayMs),
                                    Append(sleeps, delayMs))
                  ELSE FetchFailed(label, "network", attempt, sleeps)
             ELSE IF RateLimited(o.code)
             THEN IF RetryAfterFailure(attempt)
                  THEN FetchAttempt(script, label, attempt + 1, NextDelay(delayMs),
                                    Append(sleeps, delayMs))
                  ELSE FetchFailed(label, "429", attempt, sleeps)
             ELSE [failed |-> FALSE, error |-> "", response |-> o,
                   calls |-> attempt + 1, sleeps |-> sleeps]

fetchWithRetry_(script, label) == FetchAttempt(script, label, 0, baseDelayMs, <<>>)

----------------------------------------------------------------------------
(* code.gs: the Retraction Watch DOI index of one execution *)

NoCache == [loaded |-> FALSE, error |-> "", hasMap |-> FALSE, map |-> {}]

IndexFailedKeepingMap(error) ==
    [loaded |-> TRUE, error |-> error, hasMap |-> TRUE, map |-> {<<"10.1/a">>}]

IndexFailed(error) == [loaded |-> TRUE, error |-> error, hasMap |-> FALSE, map |-> {}]

IndexText(lines) == [kind |-> "resp", code |-> 200, json |-> "none", text |-> lines]

IndexMap(lines) ==
    {normalizeDoi_(lines[i]) : i \in {j \in 1..Len(lines) :
                                        lines[j] # <<>> /\ normalizeDoi_(lines[j]) # <<>>}}

(* getRetractionWatchCache_ when RW_CACHE is null: o is what the fetch of  *)
(* the index does.                                                         *)
LoadRetractionWatchCache(o) ==
    IF o.kind = "exc" THEN IndexFailed("RW index exception: E")
    ELSE IF o.code # 200 THEN IndexFailed("RW index HTTP")
    ELSE IF o.text = <<>> THEN IndexFailed("RW index empty")
    ELSE [loaded |-> TRUE, error |-> "", hasMap |-> TRUE, map |-> IndexMap(o.text)]

getRetractionWatchCache_(cache, o) ==
    IF cache.loaded THEN cache ELSE LoadRetractionWatchCache(o)

InIndex(doi, rw) ==
    /\ rw.hasMap
    /\ normalizeDoi_(doi) # <<>>
    /\ normalizeDoi_(doi) \in rw.map

----------------------------------------------------------------------------
(* code.gs: checkReferencesForDoi_ *)

NoTraffic == [calls |-> 0, sleeps |-> <<>>, requested |-> <<>>]

RowResult(statusLabel, reason, referencesEvaluated, retractedDoisText, traffic) ==
    [statusLabel |-> statusLabel, reason |-> reason,
     referencesEvaluated |-> referencesEvaluated,
     retractedDoisText |-> retractedDoisText,
     thrown |-> FALSE,
     calls |-> traffic.calls, sleeps |-> traffic.sleeps,
     requested |-> traffic.requested]

ShortCircuitResult ==
    RowResult("RETRACTED",
              << <<"Self: retracted (Retraction Watch index)">>,
                 <<"References: not evaluated (RW short-circuit)">> >>,
              <<0>>, <<>>, NoTraffic)

SelfNote(selfRetracted) ==
    IF selfRetracted THEN <<"Self: retracted (OpenAlex)">>
    ELSE <<"Self: not retracted (OpenAlex)">>

IsWid(id) == id # 0

Min(a, b) == IF a <= b THEN a ELSE b

RECURSIVE Dedup(_, _)
Dedup(list, seen) ==
    IF list = <<>> THEN <<>>
    ELSE IF Head(list) \in seen THEN Dedup(Tail(list), seen)
    ELSE <<Head(list)>> \o Dedup(Tail(list), seen \cup {Head(list)})

RECURSIVE EvalResults(_, _, _, _)
EvalResults(results, k, rw, acc) ==
    IF k > Len(results) THEN acc
    ELSE LET refWork == results[k]
             refDoi == refWork.doi
             refRetractedOA == refWork.is_retracted
             refRetractedRW == refDoi # <<>> /\ InIndex(refDoi, rw)
             flagged == refRetractedOA \/ refRetractedRW
             normRef == normalizeDoi_(refDoi)
         IN  IF refWork.isNull THEN EvalResults(results, k + 1, rw, acc)
             ELSE EvalResults(results, k + 1, rw,
                    [acc EXCEPT
                       !.evaluated = @ + 1,
                       !.retractedCount = IF flagged THEN @ + 1 ELSE @,
                       !.viaOA = IF refRetractedOA THEN @ + 1 ELSE @,
                       !.viaRW = IF refRetractedRW THEN @ + 1 ELSE @,
                       !.retractedDois =
                           IF flagged /\ refDoi # <<>> /\ normRef # <<>>
                           THEN Append(@, normRef) ELSE @])

DecideStatus(selfRetracted, rw, acc) ==
    IF acc.evaluated = 0
    THEN RowResult(IF selfRetracted THEN "RETRACTED" ELSE "NO REFERENCES FOUND",
                   <<SelfNote(selfRetracted), <<"OpenAlex: references not resolved">> >>,
                   <<0>>, Dedup(acc.retractedDois, {}), acc)
    ELSE RowResult(IF selfRetracted THEN "RETRACTED"
                   ELSE IF acc.retractedCount > 0 THEN "CITES RETRACTED"
                   ELSE "NO RETRACTED CITATIONS FOUND",
                   <<SelfNote(selfRetracted),
                     <<"References: flagged", acc.retractedCount, acc.evaluated>> >>
                   \o (IF acc.viaRW > 0 THEN << <<"via RW index:", acc.viaRW>> >> ELSE <<>>)
                   \o (IF acc.viaOA > 0 THEN << <<"via OpenAlex:", acc.viaOA>> >> ELSE <<>>)
                   \o (IF rw.error # ""
                       THEN << <<"RW index unavailable - only OpenAlex used for flags">> >>
                       ELSE <<>>),
                   <<acc.evaluated>>, Dedup(acc.retractedDois, {}), acc)

(* What a failing request for one batch of references does to the row.     *)
RefsFailure(selfRetracted, bit, acc) ==
    RowResult("ERROR", <<SelfNote(selfRetracted), bit>>,
              <<acc.evaluated>>, acc.retractedDois, acc)

RECURSIVE RefBatches(_, _, _, _, _, _)
RefBatches(refIds, start, rw, world, selfRetracted, acc) ==
    IF start >= Len(refIds) THEN DecideStatus(selfRetracted, rw, acc)
    ELSE LET slice == SubSeq(refIds, start + 1, Min(start + batchSizeRefs, Len(refIds)))
             idList == SelectSeq(slice, IsWid)
             b == (start \div batchSizeRefs) + 1
             frRefs == fetchWithRetry_(world.batches[b], "OpenAlex references")
             respRefs == frRefs.response
             acc1 == [acc EXCEPT !.calls = @ + frRefs.calls,
                                 !.sleeps = @ \o frRefs.sleeps,
                                 !.requested = Append(@, b)]
         IN  IF idList = <<>>
             THEN RefBatches(refIds, start + batchSizeRefs, rw, world, selfRetracted, acc)
             ELSE IF frRefs.failed
             THEN RefsFailure(selfRetracted, <<frRefs.error>>, acc1)
             ELSE IF respRefs.code # 200
             THEN RefsFailure(selfRetracted, <<"OpenAlex refs HTTP", respRefs.code>>, acc1)
             ELSE IF respRefs.json = "invalid"
             THEN RefsFailure(selfRetracted, <<"OpenAlex refs invalid JSON">>, acc1)
             ELSE IF respRefs.json = "null" \/ ~respRefs.hasResults
             THEN RefBatches(refIds, start + batchSizeRefs, rw, world, selfRetracted, acc1)
             ELSE RefBatches(refIds, start + batchSizeRefs, rw, world, selfRetracted,
                             EvalResults(respRefs.results, 1, rw, acc1))

NoRefsLabelIgnoringSelf(selfRetracted) == "NO REFERENCES FOUND"

(* lines 258-260 *)
NoRefsLabel(selfRetracted) ==
    IF selfRetracted THEN "RETRACTED" ELSE "NO REFERENCES FOUND"

NoShortCircuit(doi, rwCacheArg) == FALSE

UseShortCircuit(doi, rwCacheArg) == InIndex(doi, rwCacheArg)

checkReferencesForDoi_(doi, rwCacheArg, world) ==
    IF UseShortCircuit(doi, rwCacheArg) THEN ShortCircuitResult
    ELSE LET frWork == fetchWithRetry_(world.work, "OpenAlex work")
             respWork == frWork.response
             traffic == [calls |-> frWork.calls, sleeps |-> frWork.sleeps,
                         requested |-> <<>>]
             acc0 == [evaluated |-> 0, retractedCount |-> 0, viaRW |-> 0, viaOA |-> 0,
                      retractedDois |-> <<>>, calls |-> frWork.calls,
                      sleeps |-> frWork.sleeps, requested |-> <<>>]
         IN  IF frWork.failed
             THEN RowResult("ERROR", << <<frWork.error>> >>, <<>>, <<>>, traffic)
             ELSE IF respWork.code = 404
             THEN RowResult("UNKNOWN", << <<"OpenAlex: DOI not found">> >>, <<>>, <<>>, traffic)
             ELSE IF respWork.code # 200
             THEN RowResult("ERROR", << <<"OpenAlex work HTTP", respWork.code>> >>,
                            <<>>, <<>>, traffic)
             ELSE IF respWork.json = "invalid"
             THEN RowResult("ERROR", << <<"OpenAlex work invalid JSON">> >>, <<>>, <<>>, traffic)
             ELSE IF respWork.json = "null"
             THEN RowResult("UNKNOWN", << <<"OpenAlex work: empty payload">> >>,
                            <<>>, <<>>, traffic)
             ELSE IF Len(respWork.referenced_works) = 0
             THEN RowResult(NoRefsLabel(respWork.is_retracted),
                            <<SelfNote(respWork.is_retracted), <<"OpenAlex: 0 references">> >>,
                            <<0>>, <<>>, traffic)
             ELSE RefBatches(respWork.referenced_works, 0, rwCacheArg, world,
                             respWork.is_retracted, acc0)

----------------------------------------------------------------------------
(* The provider, as far as the runner's rows meet it: a world says what    *)
(* the work request and each request for a batch of references do, and how *)
(* long the provider takes over the row.                                   *)

RefWork(doi, retr) == [isNull |-> FALSE, doi |-> doi, is_retracted |-> retr]
NullWork == [isNull |-> TRUE, doi |-> <<>>, is_retracted |-> FALSE]

Ids(n) == [i \in 1..n |-> i]

Now(s) == Script(<<>>, s)

World(name, work, batches, latency) ==
    [name |-> name, work |-> work, batches |-> batches, latency |-> latency]

NoBatches == [b \in 1..3 |-> Now(RefsOk(<<>>))]

TwoResults == <<RefWork(<<"https://doi.org/", "10.1/A">>, FALSE), RefWork(<<>>, FALSE)>>

RunnerWorlds ==
    { World("no references", Now(WorkOk(FALSE, <<>>)), NoBatches, 0),
      World("slow", Now(WorkOk(FALSE, <<>>)), NoBatches, SlowCallMs),
      World("rate limited", Script(<<"429", "429", "429">>, Http(429)), NoBatches, 0),
      World("network down", Script(<<"exc", "exc", "exc">>, Exc), NoBatches, 0),
      World("not found", Now(Http(404)), NoBatches, 0),
      World("second batch rate limited",
            Script(<<"exc">>, WorkOk(FALSE, Ids(batchSizeRefs + 1))),
            [b \in 1..3 |-> IF b = 1 THEN Now(RefsOk(TwoResults))
                            ELSE Script(<<"429", "429", "429">>, Http(429))],
            0) }

NoWorld == World("", Now(Exc), NoBatches, 0)

----------------------------------------------------------------------------
(* code.gs: the sheet and the runner *)

Runners == {1, 2}

Limits == (1..MaxLimit) \cup {BATCH_SIZE}

PendingRow(doi) ==
    [doi |-> doi, status |-> "", reason |-> <<>>, refs |-> <<>>, retr |-> <<>>]

DoiColumnA == <<<<"10.1/a">>, <<"doi:", "10.1/B">>, <<"10.1/c">>>>
DoiColumnB == <<<<"10.1/a", " ">>, <<>>, <<"10.1/c">>, <<" ">>>>

ColumnAt(column, i) == column[((i - 1) % Len(column)) + 1]

InitialSheets ==
    {[i \in 1..n |-> PendingRow(ColumnAt(column, i))] :
        n \in 0..MaxRows, column \in {DoiColumnA, DoiColumnB}}

IndexOutcomes ==
    { Exc, Http(500), IndexText(<<>>),
      IndexText(<<<<"https://doi.org/", "10.1/A">>, <<>>, <<" ">>>>) }

NoLast == [row |-> 0, world |-> NoWorld, calls |-> 0, sleeps |-> <<>>,
           requested |-> <<>>, startedAt |-> 0]

RECURSIVE Sum(_)
Sum(s) == IF s = <<>> THEN 0 ELSE Head(s) + Sum(Tail(s))

SkipRowWhateverItsDoi(row) == row.status # ""

SkipRowWhateverItsStatus(row) == row.doi = <<>> \/ Trim(row.doi) = <<>>

(* line 124 *)
SkipRow(row) == row.doi = <<>> \/ Trim(row.doi) = <<>> \/ row.status # ""

OutOfTimeWithoutMargin(ms) == ms > MAX_RUNTIME_MS

(* line 129 *)
OutOfTime(ms) == ms > MAX_RUNTIME_MS - SAFETY_MARGIN_MS

CommitRowLater(sh, i, result) == sh

CommitRowUnlessError(sh, i, result) ==
    IF result.statusLabel = "ERROR" THEN sh
    ELSE [sh EXCEPT ![i] = [doi |-> @.doi,
                            status |-> result.statusLabel,
                            reason |-> result.reason,
                            refs |-> result.referencesEvaluated,
                            retr |-> result.retractedDoisText]]

(* lines 136-141 *)
CommitRow(sh, i, result) ==
    [sh EXCEPT ![i] = [doi |-> @.doi,
                       status |-> result.statusLabel,
                       reason |-> result.reason,
                       refs |-> result.referencesEvaluated,
                       retr |-> result.retractedDoisText]]

LimitReachedOneLate(n, lim) == n > lim

(* line 146 *)
LimitReached(n, lim) == n >= lim

(* lines 78-80 *)
ClearResults(sh) == [i \in 1..Len(sh) |-> PendingRow(sh[i].doi)]

(* No row is between checkReferencesForDoi_ and setValues.                 *)
NoInflight == [row |-> 0]

(* No execution is running.                                                *)
RunnerAtRest ==
    /\ pc = [r \in Runners |-> "idle"]
    /\ mode = [r \in Runners |-> "next"]
    /\ limit = [r \in Runners |-> BATCH_SIZE]
    /\ data = [r \in Runners |-> <<>>]
    /\ idx = [r \in Runners |-> 1]
    /\ processed = [r \in Runners |-> 0]
    /\ elapsed = [r \in Runners |-> 0]
    /\ allElapsed = [r \in Runners |-> 0]
    /\ rwCache = [r \in Runners |-> NoCache]
    /\ brk = [r \in Runners |-> "none"]
    /\ batchRows = [r \in Runners |-> <<>>]
    /\ last = [r \in Runners |-> NoLast]
    /\ selected = [i \in 1..Len(sheet) |-> 0]
    /\ inflight = [r \in Runners |-> NoInflight]

Init ==
    /\ sheet \in InitialSheets
    /\ RunnerAtRest
    /\ merge = NoMerge
    /\ resolve = NoResolve
    /\ classify = NoClassify
    /\ rwLoad = NoRwLoad
    /\ calc = NoCalc
    /\ report = NoReport

(* processNextBatch: the menu passes the configured batch size as limit.   *)
ProcessNextBatch(r) ==
    /\ UNCHANGED <<browserVars, inflight>>
    /\ pc[r] = "idle"
    /\ \E lim \in Limits : limit' = [limit EXCEPT ![r] = lim]
    /\ pc' = [pc EXCEPT ![r] = "begin"]
    /\ mode' = [mode EXCEPT ![r] = "next"]
    /\ UNCHANGED <<sheet, data, idx, processed, elapsed, allElapsed, rwCache, brk,
                   batchRows, last, selected>>

(* processAllRemaining, up to its first call of processBatch_.             *)
ProcessAllRemaining(r) ==
    /\ UNCHANGED <<browserVars, inflight>>
    /\ pc[r] = "idle"
    /\ \E lim \in Limits : limit' = [limit EXCEPT ![r] = lim]
    /\ pc' = [pc EXCEPT ![r] = "begin"]
    /\ mode' = [mode EXCEPT ![r] = "all"]
    /\ allElapsed' = [allElapsed EXCEPT ![r] = 0]
    /\ UNCHANGED <<sheet, data, idx, processed, elapsed, rwCache, brk, batchRows,
                   last, selected>>

(* processBatch_, lines 92-114: read the rows, load the index.             *)
BeginBatch(r) ==
    /\ UNCHANGED <<browserVars, inflight>>
    /\ pc[r] = "begin"
    /\ processed' = [processed EXCEPT ![r] = 0]
    /\ batchRows' = [batchRows EXCEPT ![r] = <<>>]
    /\ last' = [last EXCEPT ![r] = NoLast]
    /\ IF Len(sheet) = 0
       THEN /\ pc' = [pc EXCEPT ![r] = "ret"]
            /\ brk' = [brk EXCEPT ![r] = "no rows"]
            /\ UNCHANGED <<data, idx, elapsed, rwCache>>
       ELSE /\ pc' = [pc EXCEPT ![r] = "loop"]
            /\ brk' = [brk EXCEPT ![r] = "none"]
            /\ data' = [data EXCEPT ![r] = sheet]
            /\ idx' = [idx EXCEPT ![r] = 1]
            /\ elapsed' = [elapsed EXCEPT ![r] = 0]
            /\ \E o \in IndexOutcomes :
                 rwCache' = [rwCache EXCEPT ![r] = getRetractionWatchCache_(@, o)]
    /\ UNCHANGED <<sheet, mode, limit, allElapsed, selected>>

LeaveLoop(r, why) ==
    /\ pc' = [pc EXCEPT ![r] = "ret"]
    /\ brk' = [brk EXCEPT ![r] = why]

(* the for loop of line 116 has run past the last row *)
LoopEnd(r) ==
    /\ UNCHANGED <<browserVars, inflight>>
    /\ pc[r] = "loop"
    /\ idx[r] > Len(data[r])
    /\ LeaveLoop(r, "end")
    /\ UNCHANGED <<sheet, mode, limit, data, idx, processed, elapsed, allElapsed,
                   rwCache, batchRows, last, selected>>

(* lines 123-126 *)
SkipStep(r) ==
    /\ UNCHANGED <<browserVars, inflight>>
    /\ pc[r] = "loop"
    /\ idx[r] <= Len(data[r])
    /\ SkipRow(data[r][idx[r]])
    /\ idx' = [idx EXCEPT ![r] = @ + 1]
    /\ UNCHANGED <<sheet, pc, mode, limit, data, processed, elapsed, allElapsed,
                   rwCache, brk, batchRows, last, selected>>

(* lines 128-131 *)
TimeBreak(r) ==
    /\ UNCHANGED <<browserVars, inflight>>
    /\ pc[r] = "loop"
    /\ idx[r] <= Len(data[r])
    /\ ~SkipRow(data[r][idx[r]])
    /\ OutOfTime(elapsed[r])
    /\ LeaveLoop(r, "time")
    /\ UNCHANGED <<sheet, mode, limit, data, idx, processed, elapsed, allElapsed,
                   rwCache, batchRows, last, selected>>

(* lines 133-148: one row, from checkReferencesForDoi_ to the sleep.       *)
ProcessRow(r) ==
    /\ UNCHANGED <<browserVars, inflight>>
    /\ pc[r] = "loop"
    /\ idx[r] <= Len(data[r])
    /\ ~SkipRow(data[r][idx[r]])
    /\ ~OutOfTime(elapsed[r])
    /\ \E w \in RunnerWorlds :
         LET i == idx[r]
             result == checkReferencesForDoi_(Trim(data[r][i].doi), rwCache[r], w)
             spent == w.latency + Sum(result.sleeps) + PER_DOI_SLEEP_MS
         IN  /\ sheet' = CommitRow(sheet, i, result)
             /\ processed' = [processed EXCEPT ![r] = @ + 1]
             /\ elapsed' = [elapsed EXCEPT ![r] = @ + spent]
             /\ allElapsed' = [allElapsed EXCEPT ![r] =
                                  IF mode[r] = "all" THEN @ + spent ELSE @]
             /\ batchRows' = [batchRows EXCEPT ![r] = Append(@, i)]
             /\ last' = [last EXCEPT ![r] =
                            [row |-> i, world |-> w, calls |-> result.calls,
                             sleeps |-> result.sleeps, requested |-> result.requested,
                             startedAt |-> elapsed[r]]]
             /\ selected' = [selected EXCEPT ![i] = @ + 1]
             /\ IF LimitReached(processed[r] + 1, limit[r])
                THEN LeaveLoop(r, "limit") /\ UNCHANGED idx
                ELSE idx' = [idx EXCEPT ![r] = @ + 1] /\ UNCHANGED <<pc, brk>>
    /\ UNCHANGED <<mode, limit, data, rwCache>>

(* processBatch_ returns processed > 0 (line 159) to its caller.           *)
DidWork(r) == processed[r] > 0

AllLoopGoesOnWhileWork(r) == DidWork(r)

(* lines 63-68 *)
AllLoopGoesOn(r) == DidWork(r) /\ ~(allElapsed[r] > MAX_RUNTIME_MS)

(* The caller of processBatch_: processNextBatch ends the execution, and *)
(* so does processAllRemaining unless its loop goes on (lines 62-68). The  *)
(* locals and the globals of an execution end with it.                      *)
Return(r) ==
    /\ UNCHANGED <<browserVars, inflight>>
    /\ pc[r] = "ret"
    /\ IF mode[r] = "all" /\ AllLoopGoesOn(r)
       THEN /\ pc' = [pc EXCEPT ![r] = "begin"]
            /\ UNCHANGED <<mode, limit, data, idx, processed, elapsed, allElapsed,
                           rwCache, brk, batchRows, last>>
       ELSE /\ pc' = [pc EXCEPT ![r] = "idle"]
            /\ mode' = [mode EXCEPT ![r] = "next"]
            /\ limit' = [limit EXCEPT ![r] = BATCH_SIZE]
            /\ data' = [data EXCEPT ![r] = <<>>]
            /\ idx' = [idx EXCEPT ![r] = 1]
            /\ processed' = [processed EXCEPT ![r] = 0]
            /\ elapsed' = [elapsed EXCEPT ![r] = 0]
            /\ allElapsed' = [allElapsed EXCEPT ![r] = 0]
            /\ rwCache' = [rwCache EXCEPT ![r] = NoCache]
            /\ brk' = [brk EXCEPT ![r] = "none"]
            /\ batchRows' = [batchRows EXCEPT ![r] = <<>>]
            /\ last' = [last EXCEPT ![r] = NoLast]
    /\ UNCHANGED <<sheet, selected>>

(* resetResults, run while no batch is in flight *)
ResetResults ==
    /\ UNCHANGED <<browserVars, inflight>>
    /\ \A r \in Runners : pc[r] = "idle"
    /\ Len(sheet) > 0
    /\ sheet' = ClearResults(sheet)
    /\ selected' = [i \in 1..Len(sheet) |-> 0]
    /\ UNCHANGED <<pc, mode, limit, data, idx, processed, elapsed, allElapsed,
                   rwCache, brk, batchRows, last>>

RunnerStep(r) ==
    \/ ProcessNextBatch(r)
    \/ ProcessAllRemaining(r)
    \/ BeginBatch(r)
    \/ LoopEnd(r)
    \/ SkipStep(r)
    \/ TimeBreak(r)
    \/ ProcessRow(r)
    \/ Return(r)

(* One execution at a time: the invocations follow one another.            *)
Next == RunnerStep(1) \/ ResetResults

Spec == Init /\ [][Next]_vars

----------------------------------------------------------------------------
(* code.gs: the runner one statement at a time, and executions that the    *)
(* platform stops before they return.                                      *)

(* lines 133-134: checkReferencesForDoi_ has returned, nothing is written. *)
CheckRow(r) ==
    /\ UNCHANGED browserVars
    /\ pc[r] = "loop"
    /\ idx[r] <= Len(data[r])
    /\ ~SkipRow(data[r][idx[r]])
    /\ ~OutOfTime(elapsed[r])
    /\ \E w \in RunnerWorlds :
         LET i == idx[r]
             result == checkReferencesForDoi_(Trim(data[r][i].doi), rwCache[r], w)
             spent == w.latency + Sum(result.sleeps)
         IN  /\ inflight' = [inflight EXCEPT ![r] = [row |-> i, result |-> result]]
             /\ elapsed' = [elapsed EXCEPT ![r] = @ + spent]
             /\ allElapsed' = [allElapsed EXCEPT ![r] =
                                  IF mode[r] = "all" THEN @ + spent ELSE @]
             /\ last' = [last EXCEPT ![r] =
                            [row |-> i, world |-> w, calls |-> result.calls,
                             sleeps |-> result.sleeps, requested |-> result.requested,
                             startedAt |-> elapsed[r]]]
             /\ selected' = [selected EXCEPT ![i] = @ + 1]
    /\ pc' = [pc EXCEPT ![r] = "write"]
    /\ UNCHANGED <<sheet, mode, limit, data, idx, processed, rwCache, brk, batchRows>>

(* lines 136-148: setValues, the count, the sleep and the limit.           *)
WriteRow(r) ==
    /\ UNCHANGED browserVars
    /\ pc[r] = "write"
    /\ sheet' = CommitRow(sheet, inflight[r].row, inflight[r].result)
    /\ inflight' = [inflight EXCEPT ![r] = NoInflight]
    /\ processed' = [processed EXCEPT ![r] = @ + 1]
    /\ elapsed' = [elapsed EXCEPT ![r] = @ + PER_DOI_SLEEP_MS]
    /\ allElapsed' = [allElapsed EXCEPT ![r] =
                         IF mode[r] = "all" THEN @ + PER_DOI_SLEEP_MS ELSE @]
    /\ batchRows' = [batchRows EXCEPT ![r] = Append(@, inflight[r].row)]
    /\ IF LimitReached(processed[r] + 1, limit[r])
       THEN /\ pc' = [pc EXCEPT ![r] = "ret"]
            /\ brk' = [brk EXCEPT ![r] = "limit"]
            /\ UNCHANGED idx
       ELSE /\ pc' = [pc EXCEPT ![r] = "loop"]
            /\ idx' = [idx EXCEPT ![r] = @ + 1]
            /\ UNCHANGED brk
    /\ UNCHANGED <<mode, limit, data, rwCache, last, selected>>

(* The platform stops the execution where it stands (the execution time   *)
(* limit that MAX_RUNTIME_MS, line 31, stays under; a cancelled run): no   *)
(* statement of it runs any more, and its locals are gone with it.         *)
Interrupt(r) ==
    /\ pc[r] \notin {"idle", "killed"}
    /\ pc' = [pc EXCEPT ![r] = "killed"]
    /\ UNCHANGED <<sheet, mode, limit, data, idx, processed, elapsed, allElapsed,
                   rwCache, brk, batchRows, last, selected, inflight, browserVars>>

NextInterrupt ==
    \/ ProcessNextBatch(1)
    \/ ProcessAllRemaining(1)
    \/ BeginBatch(1)
    \/ LoopEnd(1)
    \/ SkipStep(1)
    \/ TimeBreak(1)
    \/ CheckRow(1)
    \/ WriteRow(1)
    \/ Return(1)
    \/ Interrupt(1)

SpecInterrupt == Init /\ [][NextInterrupt]_vars

----------------------------------------------------------------------------
(* code.gs: processAllRemaining alone.  The script engine runs the         *)
(* statements of an execution one after the other until it returns, which  *)
(* is the weak fairness of its steps.  The limit of every batch is         *)
(* BATCH_SIZE (line 62).                                                   *)

NextAll ==
    \/ ProcessAllRemaining(1) /\ limit'[1] = BATCH_SIZE
    \/ BeginBatch(1)
    \/ LoopEnd(1)
    \/ SkipStep(1)
    \/ TimeBreak(1)
    \/ ProcessRow(1)
    \/ Return(1)

(* A sheet whose rows all have a DOI and no result yet.                     *)
InitAll ==
    /\ Init
    /\ \A i \in 1..Len(sheet) : sheet[i].doi = ColumnAt(DoiColumnA, i)

SpecAll == InitAll /\ [][NextAll]_vars /\ WF_vars(NextAll)

----------------------------------------------------------------------------
(* Properties of the batch runner (one execution at a time) *)

Committed(row) == row.status # ""

Eligible(row) == row.status = "" /\ Trim(row.doi) # <<>>

EligibleRows(rows) == {i \in 1..Len(rows) : Eligible(rows[i])}

RECURSIVE Ascending(_)
Ascending(set) ==
    IF set = {} THEN <<>>
    ELSE LET m == CHOOSE x \in set : \A y \in set : x <= y
         IN  <<m>> \o Ascending(set \ {m})

FirstN(s, n) == SubSeq(s, 1, Min(n, Len(s)))

KeepsFailing(script, how) ==
    /\ Len(script.transient) > maxRetries
    /\ \A k \in 1..(maxRetries + 1) : script.transient[k] = how

Has429(reason) ==
    \E k \in 1..Len(reason) :
        reason[k][1] \in {"OpenAlex work HTTP 429 (rate limited)",
                          "OpenAlex references HTTP 429 (rate limited)"}

HasNetworkError(reason) ==
    \E k \in 1..Len(reason) :
        reason[k][1] \in {"OpenAlex work network error: E",
                          "OpenAlex references network error: E"}

Doubling(sleeps) ==
    /\ Len(sleeps) = maxRetries
    /\ sleeps[1] = baseDelayMs
    /\ \A k \in 2..Len(sleeps) : sleeps[k] = 2 * sleeps[k - 1]

(* After row i the runner is still at work on its batch, or left the loop  *)
(* for one of the loop's own reasons: the rows ended, the limit was        *)
(* reached, the time ran out.                                              *)
GoesOnAfter(r, i) ==
    \/ pc[r] = "loop" /\ idx[r] > i
    \/ pc[r] \in {"ret", "begin"} /\ brk[r] = "limit" /\ processed[r] >= limit[r]
    \/ pc[r] \in {"ret", "begin"} /\ brk[r] = "end" /\ idx[r] > Len(data[r])
    \/ pc[r] \in {"ret", "begin"} /\ brk[r] = "time"
                                 /\ elapsed[r] > MAX_RUNTIME_MS - SAFETY_MARGIN_MS

\* C1: Resumability. In every step of processNextBatch / processAllRemaining
\* (every step but a reset of the result columns) a row whose status is
\* non-empty keeps its four result fields and is not selected again.
C1_CommittedRowsStay ==
    [][ResetResults \/
       \A i \in 1..Len(sheet) :
          Committed(sheet[i]) => sheet'[i] = sheet[i] /\ selected'[i] = selected[i]]_vars

\* C1 witness: a supervisory loop re-read the rows, went past a row that an
\* earlier batch of the same loop committed, and processed a later row.
C1_Witness ==
    /\ mode[1] = "all"
    /\ pc[1] = "loop"
    /\ batchRows[1] # <<>>
    /\ \E i \in 1..Len(data[1]) :
          /\ Committed(data[1][i])
          /\ i < idx[1]
          /\ selected[i] = 1

\* C5: a row whose DOI, normalized, is in the loaded index ends RETRACTED
\* with 0 references evaluated and without any provider call, whatever the
\* provider would have answered.
C5_ShortCircuit ==
    \A r \in Runners :
        LET i == last[r].row
        IN  (i # 0 /\ InIndex(data[r][i].doi, rwCache[r]))
            => /\ sheet[i].status = "RETRACTED"
               /\ sheet[i].refs = <<0>>
               /\ last[r].calls = 0
               /\ last[r].requested = <<>>

\* C5 witness: the short-circuit was taken for a row whose work lists 41
\* references.
C5_Witness ==
    /\ last[1].row # 0
    /\ InIndex(data[1][last[1].row].doi, rwCache[1])
    /\ last[1].world.name = "second batch rate limited"
    /\ sheet[last[1].row].refs = <<0>>

\* C7: a work request that keeps getting HTTP 429 (or keeps failing at the
\* network level) is made 1 + maxRetries times, the sleeps before the
\* retries are baseDelayMs and its double, the row is ERROR with the last
\* failure in its reason, and the batch goes on. A request for a batch of
\* references that keeps getting 429 ends the row the same way.
C7_RetryThenError ==
    \A r \in Runners :
        LET i == last[r].row
            w == last[r].world
        IN  (i # 0 /\ ~InIndex(data[r][i].doi, rwCache[r]))
            => /\ KeepsFailing(w.work, "429")
                  => /\ last[r].calls = 1 + maxRetries
                     /\ Doubling(last[r].sleeps)
                     /\ sheet[i].status = "ERROR"
                     /\ Has429(sheet[i].reason)
                     /\ GoesOnAfter(r, i)
               /\ KeepsFailing(w.work, "exc")
                  => /\ last[r].calls = 1 + maxRetries
                     /\ Doubling(last[r].sleeps)
                     /\ sheet[i].status = "ERROR"
                     /\ HasNetworkError(sheet[i].reason)
                     /\ GoesOnAfter(r, i)
               /\ (last[r].requested # <<>>
                   /\ KeepsFailing(w.batches[last[r].requested[Len(last[r].requested)]], "429"))
                  => /\ sheet[i].status = "ERROR"
                     /\ Has429(sheet[i].reason)
                     /\ Len(last[r].sleeps) >= maxRetries
                     /\ Doubling(SubSeq(last[r].sleeps,
                                        Len(last[r].sleeps) - maxRetries + 1,
                                        Len(last[r].sleeps)))
                     /\ GoesOnAfter(r, i)

\* C7 witness: a row was rate limited on every attempt and the runner is at
\* the next row.
C7_Witness ==
    /\ last[1].row # 0
    /\ KeepsFailing(last[1].world.work, "429")
    /\ last[1].calls = 3
    /\ last[1].sleeps = <<3000, 6000>>
    /\ sheet[last[1].row].status = "ERROR"
    /\ pc[1] = "loop"

(* What the provider did to a row, read off the world.                     *)
RequestFails(script) ==
    \/ Len(script.transient) > maxRetries
    \/ script.final.kind = "exc"
    \/ script.final.code # 200
    \/ script.final.json \in {"invalid"}

WorkFails(w) == RequestFails(w.work) \/ w.work.final.json = "null"

SomeBatchFails(w) ==
    /\ ~WorkFails(w)
    /\ \E b \in 1..3 :
          /\ (b - 1) * batchSizeRefs < Len(w.work.final.referenced_works)
          /\ RequestFails(w.batches[b])

C9_TimeBox ==
    /\ \A r \in Runners :
          /\ last[r].row # 0 => last[r].startedAt <= MAX_RUNTIME_MS - SAFETY_MARGIN_MS
          /\ (pc[r] = "ret" /\ brk[r] = "time")
             => /\ elapsed[r] > MAX_RUNTIME_MS - SAFETY_MARGIN_MS
                /\ sheet[idx[r]] = data[r][idx[r]]
                /\ ~Committed(sheet[idx[r]])
    /\ \A i \in 1..Len(sheet) :
          IF Committed(sheet[i])
          THEN sheet[i].reason # <<>>
          ELSE sheet[i].reason = <<>> /\ sheet[i].refs = <<>> /\ sheet[i].retr = <<>>

\* C9 witness: a batch stopped for time with an eligible row left.
C9_Witness ==
    /\ pc[1] = "ret"
    /\ brk[1] = "time"
    /\ processed[1] = 2
    /\ Eligible(sheet[idx[1]])

\* C10 as stated: a batch that is not out of time processes exactly the
\* first min(limit, k) rows whose status is empty, k their number.
C10_AsStated ==
    \A r \in Runners :
        (pc[r] = "ret" /\ brk[r] \in {"end", "limit"})
        => batchRows[r] =
             FirstN(Ascending({i \in 1..Len(data[r]) : data[r][i].status = ""}), limit[r])

\* C10 amended: a batch never processes more than limit rows, processes
\* rows in increasing row order, and, when it is not out of time, processes
\* exactly the first min(limit, k) rows that have an empty status and a
\* non-blank DOI, k their number.
C10_FirstEligibleRows ==
    \A r \in Runners :
        /\ Len(batchRows[r]) <= limit[r]
        /\ \A k \in 2..Len(batchRows[r]) : batchRows[r][k - 1] < batchRows[r][k]
        /\ (pc[r] = "ret" /\ brk[r] \in {"end", "limit"})
           => batchRows[r] = FirstN(Ascending(EligibleRows(data[r])), limit[r])

\* C10 witness: a batch stopped at its limit of 1 with a second eligible row
\* left, having skipped nothing or a row without DOI.
C10_Witness ==
    /\ pc[1] = "ret"
    /\ brk[1] = "limit"
    /\ limit[1] = 2
    /\ batchRows[1] = <<1, 3>>
    /\ Trim(data[1][2].doi) = <<>>

----------------------------------------------------------------------------
(* app.js: the status merger.  "v1" is the variant of lines 1-1072, "v3"   *)
(* the variant of lines 1948-2694.                                          *)

Variants == {"v1", "v3"}

(* lines 95-103 *)
STATUS_SCORE ==
    [s \in {"retracted", "expression_of_concern", "withdrawn", "corrected",
            "problem_no_doi", "problem_unknown", "ok"} |->
        CASE s = "retracted" -> 5
          [] s = "expression_of_concern" -> 4
          [] s = "withdrawn" -> 4
          [] s = "corrected" -> 3
          [] s = "problem_no_doi" -> 2
          [] s = "problem_unknown" -> 1
          [] OTHER -> 0]

(* lines 434-435: STATUS_SCORE[a] ?? 0 *)
ScoreOrZero(s) == IF s \in DOMAIN STATUS_SCORE THEN STATUS_SCORE[s] ELSE 0

(* lines 433-437 *)
pickMoreSevereSecondOnTie(a, b) == IF ScoreOrZero(a) > ScoreOrZero(b) THEN a ELSE b

pickMoreSevere(a, b) == IF ScoreOrZero(a) >= ScoreOrZero(b) THEN a ELSE b

(* lines 1966-1974 *)
STATUS_SEVERITY ==
    [s \in {"retracted", "expression_of_concern", "withdrawn", "corrected",
            "ok", "no_doi", "unknown"} |->
        CASE s = "retracted" -> 5
          [] s = "expression_of_concern" -> 4
          [] s = "withdrawn" -> 4
          [] s = "corrected" -> 3
          [] s = "ok" -> 2
          [] OTHER -> 1]

(* lines 2024-2025: STATUS_SEVERITY[aStatus] ?? 0 *)
SeverityOrZero(s) == IF s \in DOMAIN STATUS_SEVERITY THEN STATUS_SEVERITY[s] ELSE 0

(* lines 2023-2027 *)
pickLessSevereStatus(aStatus, bStatus) ==
    IF SeverityOrZero(aStatus) <= SeverityOrZero(bStatus) THEN aStatus ELSE bStatus

pickMoreSevereStatus(aStatus, bStatus) ==
    IF SeverityOrZero(aStatus) >= SeverityOrZero(bStatus) THEN aStatus ELSE bStatus

(* What getCrossrefRetractionInfoForDoi can answer (lines 284-343,         *)
(* 2179-2239): the status read from the record, or "unknown" on an error.  *)
CrossrefVerdicts ==
    {"ok", "corrected", "withdrawn", "expression_of_concern", "retracted", "unknown"}

(* What getPubMedRetractionInfoForDoi can answer (lines 374-429,           *)
(* 2278-2345); PubMed has no withdrawal.                                   *)
PubMedVerdicts ==
    {"ok", "corrected", "expression_of_concern", "retracted", "unknown"}

(* The Retraction Watch index for one DOI: the index came empty or failed  *)
(* to load, or the DOI is or is not in it.                                 *)
IndexLookups == {"not loaded", "absent", "present"}

(* lines 193-197 *)
isDoiInRetractionWatch(lookup) == lookup = "present"

(* lines 2113-2138 *)
getRetractionWatchInfoForDoi(lookup) ==
    IF lookup = "present" THEN "retracted" ELSE "ok"

(* lines 446-456 *)
CombineV1(cr, pm, rwHit, isRetractedOpenAlex) ==
    LET s0 == pickMoreSevere(cr, pm)
        s1 == IF rwHit THEN pickMoreSevere(s0, "retracted") ELSE s0
    IN  IF isRetractedOpenAlex THEN pickMoreSevere(s1, "retracted") ELSE s1

(* lines 2354-2357 *)
CombineV3(crossrefInfo, pubmedInfo, rwInfo) ==
    pickMoreSevereStatus(pickMoreSevereStatus(crossrefInfo, pubmedInfo), rwInfo)

(* A reference is about to be classified by one of the variants.           *)
InitMerge ==
    /\ sheet = <<>>
    /\ RunnerAtRest
    /\ \E v \in Variants : merge = [pc |-> "called", variant |-> v]
    /\ resolve = NoResolve
    /\ classify = NoClassify
    /\ rwLoad = NoRwLoad
    /\ calc = NoCalc
    /\ report = NoReport

(* Promise.all (lines 440-444, 2348-2352): the three lookups have          *)
(* settled, each with its verdict, in the slot of its source.  OpenAlex's  *)
(* is_retracted is an argument of the v1 variant only.                     *)
AdaptersSettle ==
    /\ merge.pc = "called"
    /\ \E cr \in CrossrefVerdicts, pm \in PubMedVerdicts, rw \in IndexLookups,
          oa \in (IF merge.variant = "v1" THEN BOOLEAN ELSE {FALSE}) :
          merge' = [pc |-> "settled", variant |-> merge.variant, cr |-> cr,
                    pm |-> pm, rw |-> rw, isRetractedOpenAlex |-> oa]
    /\ UNCHANGED <<runnerVars, resolve, classify, rwLoad, calc, report>>

Merged(status, pair) ==
    [pc |-> "done", variant |-> merge.variant, cr |-> merge.cr, pm |-> merge.pm,
     rw |-> merge.rw, isRetractedOpenAlex |-> merge.isRetractedOpenAlex,
     pair |-> pair, status |-> status]

(* v1, lines 446-461 *)
getCombinedRetractionInfoForDoi ==
    /\ merge.pc = "settled"
    /\ merge.variant = "v1"
    /\ merge' = Merged(CombineV1(merge.cr, merge.pm,
                                 isDoiInRetractionWatch(merge.rw),
                                 merge.isRetractedOpenAlex),
                       pickMoreSevere(merge.cr, merge.pm))
    /\ UNCHANGED <<runnerVars, resolve, classify, rwLoad, calc, report>>

(* v3, lines 2354-2371 *)
getCombinedRetractionInfoForDoiV3 ==
    /\ merge.pc = "settled"
    /\ merge.variant = "v3"
    /\ merge' = Merged(CombineV3(merge.cr, merge.pm,
                                 getRetractionWatchInfoForDoi(merge.rw)),
                       pickMoreSevereStatus(merge.cr, merge.pm))
    /\ UNCHANGED <<runnerVars, resolve, classify, rwLoad, calc, report>>

NextMerge ==
    \/ AdaptersSettle
    \/ getCombinedRetractionInfoForDoi
    \/ getCombinedRetractionInfoForDoiV3

SpecMerge == InitMerge /\ [][NextMerge]_vars

----------------------------------------------------------------------------
(* Properties of the status merger *)

(* The severity order of the data model: ok 0 < unknown 1 = no_doi 1 <     *)
(* corrected 3 < expression_of_concern 4 = withdrawn 4 < retracted 5.      *)
DataModelSeverity(s) ==
    CASE s = "retracted" -> 5
      [] s \in {"expression_of_concern", "withdrawn"} -> 4
      [] s = "corrected" -> 3
      [] s \in {"unknown", "no_doi"} -> 1
      [] OTHER -> 0

(* The ranking the variant in use merges by.                               *)
CodeRank(s) == IF merge.variant = "v1" THEN ScoreOrZero(s) ELSE SeverityOrZero(s)

(* The verdicts that went into the merged status.                          *)
MergeInputs ==
    IF merge.variant = "v1"
    THEN {merge.cr, merge.pm}
         \cup (IF isDoiInRetractionWatch(merge.rw) THEN {"retracted"} ELSE {})
         \cup (IF merge.isRetractedOpenAlex THEN {"retracted"} ELSE {})
    ELSE {merge.cr, merge.pm, getRetractionWatchInfoForDoi(merge.rw)}

MaxOf(S) == CHOOSE n \in S : \A m \in S : m <= n

(* The merge of the Crossref and PubMed verdicts taken in the other order. *)
PairSwapped ==
    IF merge.variant = "v1"
    THEN pickMoreSevere(merge.pm, merge.cr)
    ELSE pickMoreSevereStatus(merge.pm, merge.cr)

(* The merged status with the Crossref and PubMed verdicts exchanged.      *)
StatusSwapped ==
    IF merge.variant = "v1"
    THEN CombineV1(merge.pm, merge.cr, isDoiInRetractionWatch(merge.rw),
                   merge.isRetractedOpenAlex)
    ELSE CombineV3(merge.pm, merge.cr, getRetractionWatchInfoForDoi(merge.rw))

(* The precedence the merger is said to apply on a tie.                    *)
TiePrecedence(s) ==
    CASE s = "retracted" -> 4
      [] s = "expression_of_concern" -> 3
      [] s = "withdrawn" -> 2
      [] s = "corrected" -> 1
      [] OTHER -> 0

C4_AsStated ==
    merge.pc = "done"
    => /\ merge.pair = PairSwapped
       /\ merge.status = StatusSwapped
       /\ (DataModelSeverity(merge.cr) = DataModelSeverity(merge.pm)
           /\ TiePrecedence(merge.cr) > TiePrecedence(merge.pm))
          => merge.pair = merge.cr
       /\ (DataModelSeverity(merge.cr) = DataModelSeverity(merge.pm)
           /\ TiePrecedence(merge.pm) > TiePrecedence(merge.cr))
          => merge.pair = merge.pm

\* C4 amended: when the Crossref and PubMed verdicts tie in the code's
\* ranking the merge takes the Crossref verdict (its first argument), so
\* that expression_of_concern and withdrawn have no precedence over one
\* another; when they do not tie the merged status is the same for both
\* orders of the two verdicts; retracted among the inputs always gives
\* retracted.
C4_TieGoesToFirst ==
    merge.pc = "done"
    => /\ CodeRank(merge.cr) = CodeRank(merge.pm) => merge.pair = merge.cr
       /\ CodeRank(merge.cr) # CodeRank(merge.pm)
          => merge.pair = PairSwapped /\ merge.status = StatusSwapped
       /\ CodeRank(merge.status) = CodeRank(StatusSwapped)
       /\ "retracted" \in MergeInputs => merge.status = "retracted"

\* C4 witness: Crossref says withdrawn, PubMed says expression of concern,
\* and the merged status is the withdrawal.
C4_Witness ==
    /\ merge.pc = "done"
    /\ merge.variant = "v1"
    /\ merge.cr = "withdrawn"
    /\ merge.pm = "expression_of_concern"
    /\ merge.pair = "withdrawn"
    /\ merge.status = "withdrawn"

----------------------------------------------------------------------------
(* The reference resolvers.  "batched" is analyzeDoi of part_000 (one      *)
(* request per batch of reference ids), "perRef" is analyzeDoi of app.js   *)
(* lines 2393-2516 (one request per reference), "sheet" is                 *)
(* checkReferencesForDoi_ of code.gs.                                      *)

OPENALEX_REF_BATCH_SIZE == 40
maxRefs == 200

MaxSmallRefs == 3
ExampleRefs == 97

Resolvers == {"batched", "perRef", "sheet"}

(* part_000, lines 62-69 *)
normalizeDoi(raw) ==
    IF raw = <<>> THEN <<>>
    ELSE ToLower(StripFirst(StripFirst(Trim(raw),
                                       ResolverPrefixes \cup DxResolverPrefixes),
                            SchemePrefixes))

(* What OpenAlex holds on the referenced work with id i: every third has   *)
(* no DOI, every fifth is flagged retracted.                               *)
OpenAlexWork(i) ==
    [isNull |-> FALSE, id |-> i,
     doi |-> CASE i % 3 = 0 -> <<>>
               [] i % 3 = 1 -> <<"https://doi.org/", "10.1/A">>
               [] OTHER -> <<"https://doi.org/", "10.1/c">>,
     is_retracted |-> (i % 5 = 0)]

NullRefWork == [isNull |-> TRUE, id |-> 0, doi |-> <<>>, is_retracted |-> FALSE]

(* The Retraction Watch index as the page may have loaded it.              *)
RwIndexes == {{}, {<<"10.1/a">>}}

(* part_000, lines 276-323 *)
classifyReference(work, refIdx, rwIndex) ==
    LET refDoi == work.doi
        viaOA == work.is_retracted
        viaRW == refDoi # <<>> /\ rwIndex # {} /\ normalizeDoi(refDoi) \in rwIndex
        flagged == viaOA \/ viaRW
    IN  [idx |-> refIdx, openAlexId |-> work.id, doi |-> refDoi,
         status |-> IF flagged THEN "retracted"
                    ELSE IF refDoi = <<>> THEN "problem_no_doi" ELSE "ok",
         notes |-> (IF viaOA THEN << <<"OpenAlex: is_retracted = true.">> >> ELSE <<>>)
                   \o (IF viaRW THEN << <<"Retraction Watch CSV: DOI present.">> >>
                       ELSE <<>>)
                   \o (IF refDoi = <<>> /\ ~flagged
                       THEN << <<"No DOI available; cannot consult DOI-based indexes.">> >>
                       ELSE <<>>)]

(* part_000, lines 326-342 *)
classifyReferenceError(refIdx, openAlexId, errorMessage) ==
    [idx |-> refIdx, openAlexId |-> openAlexId, doi |-> <<>>,
     status |-> "problem_unknown",
     notes |-> << <<"Error fetching OpenAlex work for this reference:",
                    IF errorMessage = "" THEN "unknown error" ELSE errorMessage>> >>]

Reverse(seq) == [k \in 1..Len(seq) |-> seq[Len(seq) + 1 - k]]

EveryOther(seq) == [k \in 1..(Len(seq) \div 2) |-> seq[2 * k]]

Thrown(kind, message) ==
    [kind |-> kind, thrown |-> TRUE, message |-> message, works |-> <<>>]

Returned(kind, works) ==
    [kind |-> kind, thrown |-> FALSE, message |-> "", works |-> works]

(* part_000, lines 195-225: what fetchOpenAlexRefsBatch can do with a      *)
(* slice: throw (network, HTTP status, body that does not parse) or        *)
(* return the results of the provider, which may come whole, in another    *)
(* order, twice, in part, with a null among them, or not at all.           *)
BatchAnswers(slice) ==
    LET works == [k \in 1..Len(slice) |-> OpenAlexWork(slice[k])]
    IN  { Thrown("network", "Failed to fetch"),
          Thrown("http", "OpenAlex refs HTTP 429"),
          Thrown("parse", "Unexpected end of JSON input"),
          Returned("whole", works),
          Returned("reordered", Reverse(works)),
          Returned("duplicated", works \o works),
          Returned("partial", <<NullRefWork>> \o EveryOther(works)),
          Returned("none", <<>>) }

(* part_000, lines 435-440: mapById, the last work of an id wins.          *)
MapById(batchWorks) ==
    [id \in {batchWorks[k].id : k \in {j \in 1..Len(batchWorks) :
                                         ~batchWorks[j].isNull /\ batchWorks[j].id # 0}}
       |-> LET lastAt == CHOOSE k \in 1..Len(batchWorks) :
                          /\ batchWorks[k].id = id
                          /\ \A j \in (k + 1)..Len(batchWorks) : batchWorks[j].id # id
           IN  batchWorks[lastAt]]

(* part_000, lines 421-432 *)
FailSliceFirstOnly(slice, idxCounter, message) ==
    <<classifyReferenceError(idxCounter + 1, slice[1], message)>>

FailSlice(slice, idxCounter, message) ==
    [k \in 1..Len(slice) |-> classifyReferenceError(idxCounter + k, slice[k], message)]

(* part_000, lines 442-459 *)
ClassifyReturnedOnly(slice, idxCounter, batchWorks, rwIndex) ==
    LET present == SelectSeq(batchWorks, LAMBDA w : ~w.isNull)
    IN  [k \in 1..Len(present) |-> classifyReference(present[k], idxCounter + k, rwIndex)]

ClassifySliceByPosition(slice, idxCounter, batchWorks, rwIndex) ==
    [k \in 1..Len(slice) |->
       IF k > Len(batchWorks) \/ batchWorks[k].isNull
       THEN classifyReferenceError(idxCounter + k, slice[k],
                                   "not returned in OpenAlex results")
       ELSE [classifyReference(batchWorks[k], idxCounter + k, rwIndex)
               EXCEPT !.openAlexId = slice[k]]]

ClassifySliceMissingAsOk(slice, idxCounter, batchWorks, rwIndex) ==
    LET mapById == MapById(batchWorks)
    IN  [k \in 1..Len(slice) |->
           classifyReference(IF slice[k] \in DOMAIN mapById THEN mapById[slice[k]]
                             ELSE [NullRefWork EXCEPT !.id = slice[k],
                                                      !.doi = <<"10.1/c">>],
                             idxCounter + k, rwIndex)]

ClassifySlice(slice, idxCounter, batchWorks, rwIndex) ==
    LET mapById == MapById(batchWorks)
    IN  [k \in 1..Len(slice) |->
           IF slice[k] \notin DOMAIN mapById
           THEN classifyReferenceError(idxCounter + k, slice[k],
                                       "not returned in OpenAlex results")
           ELSE classifyReference(mapById[slice[k]], idxCounter + k, rwIndex)]

(* What the adapters say of the referenced work with id i.                 *)
CrossrefAnswers ==
    <<"ok", "retracted", "unknown", "corrected", "withdrawn", "expression_of_concern">>
PubMedAnswers == <<"ok", "unknown", "corrected", "expression_of_concern", "retracted">>
IndexAnswers == <<"absent", "absent", "present">>

AnswerAt(answers, i) == answers[(i % Len(answers)) + 1]

(* app.js, lines 2436-2482: whether the request for one reference fails.   *)
RefFetchWorlds == {"up", "down", "every third down"}

RefFetchThrows(world, i) ==
    \/ world = "down"
    \/ world = "every third down" /\ i % 3 = 0

(* app.js, lines 2439-2462 and 2468-2481: the study of one reference.      *)
StudyOf(world, refId, index) ==
    IF RefFetchThrows(world, refId)
    THEN [idx |-> index, openAlexId |-> refId, doi |-> <<>>, status |-> "unknown",
          notes |-> << <<"Error fetching OpenAlex work for this reference.">> >>]
    ELSE LET refDoi == OpenAlexWork(refId).doi
         IN  [idx |-> index, openAlexId |-> refId, doi |-> refDoi,
              status |-> IF refDoi = <<>> THEN "no_doi"
                         ELSE CombineV3(AnswerAt(CrossrefAnswers, refId),
                                        AnswerAt(PubMedAnswers, refId),
                                        getRetractionWatchInfoForDoi(
                                            AnswerAt(IndexAnswers, refId))),
              notes |-> IF refDoi = <<>> THEN << <<"No DOI available.">> >> ELSE <<>>]

(* What OpenAlex answers to the requests of one row of the sheet.          *)
SheetBatchScripts ==
    { Now(RefsOk(TwoResults)), Now(RefsNoResults), Now(Http(500)), Now(BadJson),
      Script(<<"429", "429", "429">>, Http(429)), Script(<<"exc", "exc", "exc">>, Exc) }

SheetWorlds ==
    { World("", Now(WorkOk(FALSE, Ids(n))), batches, 0) :
        n \in {batchSizeRefs + 1, ExampleRefs}, batches \in [1..3 -> SheetBatchScripts] }

RefCounts(variant) ==
    IF variant = "batched"
    THEN (0..MaxSmallRefs)
         \cup {OPENALEX_REF_BATCH_SIZE, OPENALEX_REF_BATCH_SIZE + 1, ExampleRefs}
    ELSE (0..MaxSmallRefs) \cup {maxRefs, maxRefs + 1}

NoRowResult == RowResult("", <<>>, <<>>, <<>>, NoTraffic)

(* A DOI has been submitted to one of the resolvers.                       *)
InitResolve ==
    /\ sheet = <<>>
    /\ RunnerAtRest
    /\ merge = NoMerge
    /\ classify = NoClassify
    /\ rwLoad = NoRwLoad
    /\ calc = NoCalc
    /\ report = NoReport
    /\ \E v \in Resolvers :
          resolve = [pc |-> "called", variant |-> v, rwIndex |-> {}, world |-> "",
                     refIds |-> <<>>, truncated |-> <<>>, start |-> 0,
                     idxCounter |-> 0,
                     allRefs |-> <<>>, requested |-> <<>>, answers |-> <<>>,
                     result |-> NoRowResult]

(* part_000 lines 370-411, app.js lines 2410-2433: the index and the focal *)
(* work have arrived; a work without references ends the analysis.         *)
FocalWorkArrives ==
    /\ resolve.pc = "called"
    /\ resolve.variant \in {"batched", "perRef"}
    /\ \E n \in RefCounts(resolve.variant), rwIndex \in RwIndexes, w \in RefFetchWorlds :
          /\ resolve.variant = "batched" => w = "up"
          /\ resolve.variant = "perRef" => rwIndex = {}
          /\ resolve' = [resolve EXCEPT
                           !.pc = IF n = 0 THEN "done" ELSE "loop",
                           !.rwIndex = rwIndex, !.world = w,
                           !.refIds = Ids(n),
                           !.truncated = IF resolve.variant = "perRef"
                                         THEN SubSeq(Ids(n), 1, Min(n, maxRefs))
                                         ELSE <<>>]
    /\ UNCHANGED <<runnerVars, merge, classify, rwLoad, calc, report>>

(* part_000 line 376, app.js line 2410: the request for the focal work     *)
(* throws, and so does analyzeDoi.                                         *)
FocalWorkFails ==
    /\ resolve.pc = "called"
    /\ resolve.variant \in {"batched", "perRef"}
    /\ resolve' = [resolve EXCEPT !.pc = "threw"]
    /\ UNCHANGED <<runnerVars, merge, classify, rwLoad, calc, report>>

(* part_000, lines 413-466: one turn of the loop over the batches.         *)
BatchStep ==
    /\ resolve.pc = "loop"
    /\ resolve.variant = "batched"
    /\ LET start == resolve.start
           refIds == resolve.refIds
           slice == SubSeq(refIds, start + 1,
                           Min(start + OPENALEX_REF_BATCH_SIZE, Len(refIds)))
       IN  \E a \in BatchAnswers(slice) :
              LET entries == IF a.thrown
                             THEN FailSlice(slice, resolve.idxCounter, a.message)
                             ELSE ClassifySlice(slice, resolve.idxCounter, a.works,
                                                resolve.rwIndex)
              IN  resolve' = [resolve EXCEPT
                     !.pc = IF start + OPENALEX_REF_BATCH_SIZE < Len(refIds)
                            THEN "loop" ELSE "done",
                     !.start = start + OPENALEX_REF_BATCH_SIZE,
                     !.idxCounter = @ + Len(entries),
                     !.allRefs = @ \o entries,
                     !.requested = Append(@, (start \div OPENALEX_REF_BATCH_SIZE) + 1),
                     !.answers = Append(@, [kind |-> a.kind, thrown |-> a.thrown,
                                             message |-> a.message,
                                             ids |-> {a.works[j].id :
                                                        j \in {n \in 1..Len(a.works) :
                                                                  ~a.works[n].isNull}}])]
    /\ UNCHANGED <<runnerVars, merge, classify, rwLoad, calc, report>>

(* app.js, lines 2435-2483: one turn of the loop over the references.      *)
RefStep ==
    /\ resolve.pc = "loop"
    /\ resolve.variant = "perRef"
    /\ LET index == resolve.idxCounter + 1
       IN  resolve' = [resolve EXCEPT
              !.pc = IF index < Len(resolve.truncated) THEN "loop" ELSE "done",
              !.idxCounter = index,
              !.allRefs = Append(@, StudyOf(resolve.world, resolve.truncated[index],
                                            index))]
    /\ UNCHANGED <<runnerVars, merge, classify, rwLoad, calc, report>>

(* code.gs, lines 163-446: the references of one row.                      *)
SheetResolve ==
    /\ resolve.pc = "called"
    /\ resolve.variant = "sheet"
    /\ \E world \in SheetWorlds :
          resolve' = [resolve EXCEPT
                        !.pc = "done",
                        !.refIds = world.work.final.referenced_works,
                        !.answers = [b \in 1..3 |->
                                       fetchWithRetry_(world.batches[b],
                                                       "OpenAlex references")],
                        !.result = checkReferencesForDoi_(
                                       <<"10.1/a">>,
                                       LoadRetractionWatchCache(IndexText(<<>>)),
                                       world)]
    /\ UNCHANGED <<runnerVars, merge, classify, rwLoad, calc, report>>

NextResolve ==
    \/ FocalWorkArrives
    \/ FocalWorkFails
    \/ BatchStep
    \/ RefStep
    \/ SheetResolve

SpecResolve == InitResolve /\ [][NextResolve]_vars

----------------------------------------------------------------------------
(* Properties of the reference resolvers *)

(* The number of batches of size b that n references make.                 *)
BatchCount(n, b) == (n + b - 1) \div b

(* The positions of the reference list that batch b of size size covers.   *)
PositionsOf(b, size, n) == {k \in 1..n : (k - 1) \div size = b - 1}

(* code.gs: a request for a batch that fails as a whole (lines 314, 325,   *)
(* 334).                                                                   *)
SheetBatchFailed(fr) ==
    fr.failed \/ fr.response.code # 200 \/ fr.response.json = "invalid"

C6_AsStated ==
    resolve.pc = "done"
    => /\ (resolve.variant = "sheet"
           /\ \E b \in 1..BatchCount(Len(resolve.refIds), batchSizeRefs) :
                 SheetBatchFailed(resolve.answers[b]))
          => resolve.result.requested
               = [b \in 1..BatchCount(Len(resolve.refIds), batchSizeRefs) |-> b]
       /\ resolve.variant = "batched"
          => /\ resolve.requested
                  = [b \in 1..BatchCount(Len(resolve.refIds), OPENALEX_REF_BATCH_SIZE) |-> b]
             /\ \A b \in 1..Len(resolve.answers) :
                   resolve.answers[b].thrown
                   => \A k \in PositionsOf(b, OPENALEX_REF_BATCH_SIZE, Len(resolve.refIds)) :
                         resolve.allRefs[k].status = "problem_unknown"

\* C6 amended: in the batched resolver of the page a batch whose call fails
\* as a whole gives every id of that batch an unknown entry with the
\* failure reason, and every later batch is requested and classified; in
\* the resolver of the sheet the first batch whose call fails as a whole
\* ends the resolution: the row's result is ERROR with the failure reason
\* and the count of what was evaluated before, and no later batch is
\* requested.
C6_BatchFailure ==
    /\ (resolve.variant = "batched" /\ resolve.pc \in {"loop", "done"})
       => /\ \A b \in 1..Len(resolve.answers) :
                \A k \in PositionsOf(b, OPENALEX_REF_BATCH_SIZE, Len(resolve.refIds)) :
                    IF k > Len(resolve.allRefs) THEN FALSE
                    ELSE IF resolve.answers[b].thrown
                    THEN /\ resolve.allRefs[k].status = "problem_unknown"
                         /\ resolve.allRefs[k].idx = k
                         /\ resolve.allRefs[k].openAlexId = resolve.refIds[k]
                         /\ resolve.allRefs[k].notes[1][2] = resolve.answers[b].message
                    ELSE resolve.answers[b].kind \in {"whole", "reordered", "duplicated"}
                         => resolve.allRefs[k].status # "problem_unknown"
          /\ resolve.requested = [b \in 1..Len(resolve.answers) |-> b]
          /\ resolve.pc = "done"
             => Len(resolve.answers)
                  = BatchCount(Len(resolve.refIds), OPENALEX_REF_BATCH_SIZE)
    /\ (resolve.variant = "sheet" /\ resolve.pc = "done")
       => LET failing == {b \in 1..BatchCount(Len(resolve.refIds), batchSizeRefs) :
                            SheetBatchFailed(resolve.answers[b])}
          IN  IF failing = {}
              THEN /\ resolve.result.statusLabel # "ERROR"
                   /\ resolve.result.requested
                        = [b \in 1..BatchCount(Len(resolve.refIds), batchSizeRefs) |-> b]
              ELSE LET first == CHOOSE b \in failing : \A c \in failing : b <= c
                   IN  /\ resolve.result.statusLabel = "ERROR"
                       /\ Len(resolve.result.reason) = 2
                       /\ resolve.result.requested = [b \in 1..first |-> b]
                       /\ resolve.result.referencesEvaluated
                            = <<Len(TwoResults)
                                * Cardinality({b \in 1..(first - 1) :
                                     resolve.answers[b].response.hasResults})>>

\* C6 witness: of three batches the second failed on the network, its ids
\* are unknown entries, and the third was requested and classified.
C6_Witness ==
    /\ resolve.pc = "done"
    /\ resolve.variant = "batched"
    /\ Len(resolve.answers) = 3
    /\ resolve.answers[1].kind = "whole"
    /\ resolve.answers[2].kind = "network"
    /\ resolve.answers[3].kind = "whole"
    /\ resolve.allRefs[OPENALEX_REF_BATCH_SIZE + 1].status = "problem_unknown"
    /\ resolve.allRefs[2 * OPENALEX_REF_BATCH_SIZE + 1].status = "problem_no_doi"
    /\ resolve.allRefs[2 * OPENALEX_REF_BATCH_SIZE + 2].status = "ok"

----------------------------------------------------------------------------
(* Properties of the runner under interruption *)

\* C11: every row whose processing has finished in an execution is
\* committed in the sheet, wherever the execution stands or was stopped;
\* a result that is computed and not yet written belongs to one row only,
\* that row is still as the execution read it, and no next row is begun
\* before it is written; so of all the rows ever started at most one, the
\* row in flight, is not committed.
C11_Checkpoint ==
    /\ \A r \in Runners :
          /\ \A k \in 1..Len(batchRows[r]) : Committed(sheet[batchRows[r][k]])
          /\ Len(batchRows[r]) = processed[r]
          /\ inflight[r].row # 0
             => /\ pc[r] \in {"write", "killed"}
                /\ ~Committed(sheet[inflight[r].row])
                /\ sheet[inflight[r].row] = data[r][inflight[r].row]
                /\ \A k \in 1..Len(batchRows[r]) : batchRows[r][k] < inflight[r].row
          /\ pc[r] = "write" => inflight[r].row = idx[r]
    /\ \A i \in 1..Len(sheet) :
          selected[i] > 0
          => Committed(sheet[i]) \/ \E r \in Runners : inflight[r].row = i
    /\ Cardinality({i \in 1..Len(sheet) : selected[i] > 0 /\ ~Committed(sheet[i])}) <= 1

\* C11 witness: an execution stopped between the check of its second row
\* and the write: the first row is committed, the second is lost.
C11_Witness ==
    /\ pc[1] = "killed"
    /\ batchRows[1] = <<1>>
    /\ inflight[1].row = 2
    /\ Committed(sheet[1])
    /\ ~Committed(sheet[2])
    /\ selected[2] = 1

----------------------------------------------------------------------------
(* Properties of processAllRemaining *)

(* The rows whose status field is empty.                                   *)
PendingCount(sh) == Cardinality({i \in 1..Len(sh) : sh[i].status = ""})

\* C12: a processAllRemaining that has started returns; when a batch of it
\* has returned, the loop stops exactly if the batch processed no row or
\* the outer budget is exceeded, and goes on to another batch otherwise;
\* and a batch that processed n rows has left n fewer rows pending than it
\* found, at least one fewer when it reports work.
C12_AllTerminates ==
    /\ (mode[1] = "all" /\ pc[1] = "begin") ~> (pc[1] = "idle")
    /\ [][(pc[1] = "ret" /\ mode[1] = "all")
          => /\ pc'[1] = "idle" <=> (processed[1] = 0 \/ allElapsed[1] > MAX_RUNTIME_MS)
             /\ pc'[1] = "begin" <=> (processed[1] > 0 /\ allElapsed[1] <= MAX_RUNTIME_MS)]_vars
    /\ [](pc[1] = "ret"
          => /\ PendingCount(sheet) = PendingCount(data[1]) - processed[1]
             /\ DidWork(1) => PendingCount(sheet) < PendingCount(data[1]))

\* C12 witness: the batch that finds nothing left to do, after batches of
\* the same processAllRemaining that committed every row.
C12_Witness ==
    /\ pc[1] = "ret"
    /\ mode[1] = "all"
    /\ processed[1] = 0
    /\ Len(sheet) = MaxRows
    /\ \A i \in 1..Len(sheet) : selected[i] = 1 /\ Committed(sheet[i])

----------------------------------------------------------------------------
(* Properties of the resolvers: ids the provider did not return *)

(* code.gs: the items that the requests of the row brought back.           *)
SheetReturned ==
    Len(TwoResults)
    * Cardinality({b \in 1..BatchCount(Len(resolve.refIds), batchSizeRefs) :
                     resolve.answers[b].response.hasResults})

(* code.gs: no request for a batch of the row failed as a whole.           *)
SheetNoFailure ==
    \A b \in 1..BatchCount(Len(resolve.refIds), batchSizeRefs) :
        ~SheetBatchFailed(resolve.answers[b])

(* The batched resolver: the entry at position k is an unknown reference   *)
(* with the id at k and the note that the provider did not return it.      *)
NotReturnedEntry(k) ==
    /\ resolve.allRefs[k].status = "problem_unknown"
    /\ resolve.allRefs[k].idx = k
    /\ resolve.allRefs[k].openAlexId = resolve.refIds[k]
    /\ resolve.allRefs[k].notes[1][2] = "not returned in OpenAlex results"

\* C13 as stated: an id that the batch response does not have gets an
\* unknown entry with the id and the note, and the evaluated count of the
\* sheet's resolver leaves no requested id out.
C13_AsStated ==
    /\ (resolve.variant = "batched" /\ resolve.pc = "done")
       => \A b \in 1..Len(resolve.answers) :
             \A k \in PositionsOf(b, OPENALEX_REF_BATCH_SIZE, Len(resolve.refIds)) :
                 (~resolve.answers[b].thrown /\ resolve.refIds[k] \notin resolve.answers[b].ids)
                 => NotReturnedEntry(k)
    /\ (resolve.variant = "sheet" /\ resolve.pc = "done" /\ SheetNoFailure)
       => resolve.result.referencesEvaluated = <<Len(resolve.refIds)>>

\* C13 amended: in the batched resolver of the page an id that the batch
\* response does not have gets an unknown entry with the id and the note
\* "not returned in OpenAlex results", and an id that it has does not; the
\* resolver of the sheet counts as evaluated the items the responses
\* brought back and nothing else: an id without an item is neither counted
\* nor reported.
C13_NotReturned ==
    /\ (resolve.variant = "batched" /\ resolve.pc \in {"loop", "done"})
       => \A b \in 1..Len(resolve.answers) :
             \A k \in PositionsOf(b, OPENALEX_REF_BATCH_SIZE, Len(resolve.refIds)) :
                 IF k > Len(resolve.allRefs) THEN FALSE
                 ELSE IF resolve.answers[b].thrown THEN TRUE
                 ELSE IF resolve.refIds[k] \notin resolve.answers[b].ids
                 THEN NotReturnedEntry(k)
                 ELSE resolve.allRefs[k].status # "problem_unknown"
    /\ (resolve.variant = "sheet" /\ resolve.pc = "done" /\ SheetNoFailure)
       => /\ resolve.result.referencesEvaluated = <<SheetReturned>>
          /\ SheetReturned < Len(resolve.refIds)
          /\ resolve.result.statusLabel
               = IF SheetReturned = 0 THEN "NO REFERENCES FOUND"
                 ELSE "NO RETRACTED CITATIONS FOUND"

\* C13 witness: a response that has the second id and not the first.
C13_Witness ==
    /\ resolve.pc = "done"
    /\ resolve.variant = "batched"
    /\ Len(resolve.answers) = 1
    /\ resolve.answers[1].kind = "partial"
    /\ Len(resolve.refIds) >= 2
    /\ NotReturnedEntry(1)
    /\ resolve.allRefs[2].status = "ok"

----------------------------------------------------------------------------
(* Properties of the resolvers: the order of the reference list *)

\* C14: in the batched resolver the entry with index i, when the response
\* of its batch has an item for the i-th id, carries that id and is built
\* from that item (its DOI, its retraction flag), whatever the order of
\* the items in the response and however often they come.
C14_OrderPreserved ==
    (resolve.variant = "batched" /\ resolve.pc \in {"loop", "done"})
    => \A b \in 1..Len(resolve.answers) :
          \A k \in PositionsOf(b, OPENALEX_REF_BATCH_SIZE, Len(resolve.refIds)) :
              (~resolve.answers[b].thrown /\ resolve.refIds[k] \in resolve.answers[b].ids)
              => /\ k <= Len(resolve.allRefs)
                 /\ resolve.allRefs[k].idx = k
                 /\ resolve.allRefs[k].openAlexId = resolve.refIds[k]
                 /\ resolve.allRefs[k].doi = OpenAlexWork(resolve.refIds[k]).doi
                 /\ OpenAlexWork(resolve.refIds[k]).is_retracted
                    => resolve.allRefs[k].status = "retracted"
                 /\ resolve.allRefs[k].status = "problem_no_doi"
                    <=> (OpenAlexWork(resolve.refIds[k]).doi = <<>>
                         /\ ~OpenAlexWork(resolve.refIds[k]).is_retracted)

\* C14 witness: the items of a batch came in the reverse order, and the
\* first entry has the DOI of the first reference, the third has none.
C14_Witness ==
    /\ resolve.pc = "done"
    /\ resolve.variant = "batched"
    /\ Len(resolve.refIds) = 3
    /\ resolve.answers[1].kind = "reordered"
    /\ resolve.allRefs[1].doi = <<"https://doi.org/", "10.1/A">>
    /\ resolve.allRefs[2].doi = <<"https://doi.org/", "10.1/c">>
    /\ resolve.allRefs[3].status = "problem_no_doi"

----------------------------------------------------------------------------
(* app.js, part_000: the classification of one reference.  The adapters of *)
(* app.js are started together and settle in any order.  A note is a tuple *)
(* whose first element names its source; the notes of one source joined by *)
(* " " are the sequence of its notes.                                      *)

ClassifyVariants == {"v1", "v3", "batched"}

(* The order of the array handed to Promise.all (lines 440-444, 2348-2352) *)
AdapterOrder == <<"crossref", "pubmed", "retractionWatch">>

AdapterNames == {AdapterOrder[k] : k \in 1..Len(AdapterOrder)}

(* What a settled call holds: a returned object (a field the object lacks  *)
(* reads as "", <<>> or FALSE), or a rejection.                            *)
Verdict(status, notes, pmid) ==
    [thrown |-> FALSE, status |-> status, notes |-> notes, pmid |-> pmid,
     hit |-> FALSE]

Rejected(note) ==
    [thrown |-> TRUE, status |-> "", notes |-> <<note>>, pmid |-> <<>>, hit |-> FALSE]

NotSettled == Verdict("pending", <<>>, <<>>)

(* How a request can fail: fetch rejects, the status is not ok, the body   *)
(* does not parse.                                                         *)
RequestFailures == {"Failed to fetch", "HTTP 404", "HTTP 429", "Unexpected token"}

CrossrefFails(failure) == [failure |-> failure, updateTo |-> <<>>, relation |-> "none"]

CrossrefMessage(updateTo, relation) ==
    [failure |-> "", updateTo |-> updateTo, relation |-> relation]

(* What Crossref can answer on one DOI.                                    *)
CrossrefOutcomes ==
    {CrossrefFails(f) : f \in RequestFailures}
    \cup {CrossrefMessage(u, "none") :
            u \in { <<>>, <<"retraction">>, <<"expression of concern">>,
                    <<"correction">>, <<"withdrawal">>, <<"new_version">>,
                    <<"correction", "retraction">>, <<"withdrawal", "erratum">> }}
    \cup {CrossrefMessage(<<>>, "is-retracted-by"),
          CrossrefMessage(<<"correction">>, "has-retraction")}

(* lines 288-309, 2183-2204: the loop over update-to *)
RECURSIVE CrossrefUpdates(_, _)
CrossrefUpdates(updateTo, acc) ==
    IF updateTo = <<>> THEN acc
    ELSE LET updateType == Head(updateTo)
             after ==
               CASE updateType = "retraction" ->
                      [status |-> "retracted",
                       notes |-> Append(acc.notes,
                                        <<"Crossref:", "update-type = retraction.">>)]
                 [] updateType = "expression of concern" ->
                      [status |-> "expression_of_concern",
                       notes |-> Append(acc.notes,
                                        <<"Crossref:",
                                          "update-type = expression of concern.">>)]
                 [] updateType \in {"correction", "erratum"} ->
                      [status |-> IF acc.status = "ok" THEN "corrected" ELSE acc.status,
                       notes |-> Append(acc.notes,
                                        <<"Crossref:",
                                          "update-type = correction/erratum.">>)]
                 [] updateType = "withdrawal" ->
                      [status |-> IF acc.status = "ok" THEN "withdrawn" ELSE acc.status,
                       notes |-> Append(acc.notes,
                                        <<"Crossref:", "update-type = withdrawal.">>)]
                 [] OTHER -> acc
         IN  CrossrefUpdates(Tail(updateTo), after)

(* lines 284-328, 2179-2225 *)
determineRetractionStatusFromCrossref(message) ==
    LET updated == CrossrefUpdates(message.updateTo, [status |-> "ok", notes |-> <<>>])
        related ==
          IF message.relation = "is-retracted-by"
          THEN [status |-> "retracted",
                notes |-> Append(updated.notes,
                                 <<"Crossref relation:", "is-retracted-by.">>)]
          ELSE IF message.relation = "has-retraction"
          THEN [status |-> "retracted",
                notes |-> Append(updated.notes,
                                 <<"Crossref relation:", "has-retraction.">>)]
          ELSE updated
    IN  Verdict(related.status,
                IF related.status = "ok" /\ related.notes = <<>>
                THEN << <<"Crossref:", "no retraction/correction signals.">> >>
                ELSE related.notes,
                <<>>)

(* lines 330-338, 2227-2239 *)
getCrossrefRetractionInfoForDoiUncaught(outcome) ==
    IF outcome.failure # ""
    THEN Rejected(<<"Crossref error:", outcome.failure>>)
    ELSE determineRetractionStatusFromCrossref(outcome)

getCrossrefRetractionInfoForDoi(outcome) ==
    IF outcome.failure # ""
    THEN Verdict("unknown", << <<"Crossref error:", outcome.failure>> >>, <<>>)
    ELSE determineRetractionStatusFromCrossref(outcome)

(* What PubMed can answer on one DOI: the search fails, finds nothing, or  *)
(* finds a PMID whose summary fails, is missing, or has publication types. *)
PubMedSearchFails(failure) ==
    [search |-> failure, pmid |-> <<>>, summary |-> "", pubtype |-> <<>>]

PubMedNoRecord == [search |-> "", pmid |-> <<>>, summary |-> "", pubtype |-> <<>>]

PubMedSummaryFails(failure) ==
    [search |-> "", pmid |-> <<7>>, summary |-> failure, pubtype |-> <<>>]

PubMedSummary(pubtype) ==
    [search |-> "", pmid |-> <<7>>, summary |-> "", pubtype |-> pubtype]

PubMedOutcomes ==
    {PubMedSearchFails(f) : f \in {"Failed to fetch", "HTTP 429"}}
    \cup {PubMedNoRecord}
    \cup {PubMedSummaryFails(f) : f \in {"HTTP 500", "PubMed esummary: missing result"}}
    \cup {PubMedSummary(t) :
            t \in { <<>>, <<"journal article">>, <<"retracted publication">>,
                    <<"retraction of publication">>, <<"expression of concern">>,
                    <<"published erratum">>,
                    <<"published erratum", "retracted publication">> }}

(* lines 380-404, 2284-2309: the loop over the publication types *)
RECURSIVE PubMedTypes(_, _)
PubMedTypes(pubtypes, acc) ==
    IF pubtypes = <<>> THEN acc
    ELSE LET pt == Head(pubtypes)
         IN  CASE pt = "retracted publication" ->
                    [status |-> "retracted",
                     notes |-> Append(acc.notes,
                                      <<"PubMed:",
                                        "publication type = Retracted Publication.">>)]
               [] pt = "retraction of publication" ->
                    [status |-> "retracted",
                     notes |-> Append(acc.notes,
                                      <<"PubMed:",
                                        "publication type = Retraction of Publication.">>)]
               [] pt = "expression of concern" ->
                    [status |-> "expression_of_concern",
                     notes |-> Append(acc.notes,
                                      <<"PubMed:",
                                        "publication type = Expression of Concern.">>)]
               [] pt \in {"published erratum", "corrigendum", "correction"} ->
                    PubMedTypes(Tail(pubtypes),
                                [status |-> IF acc.status = "ok" THEN "corrected"
                                            ELSE acc.status,
                                 notes |-> Append(acc.notes,
                                                  <<"PubMed:",
                                                    "publication type indicates correction/erratum.">>)])
               [] OTHER -> PubMedTypes(Tail(pubtypes), acc)

(* lines 374-411, 2278-2321 *)
determineRetractionStatusFromPubMedSummary(pmid, pubtype) ==
    LET typed == PubMedTypes(pubtype, [status |-> "ok", notes |-> <<>>])
    IN  Verdict(typed.status,
                IF typed.status = "ok" /\ typed.notes = <<>>
                THEN << <<"PubMed:", "no retraction-related publication types.">> >>
                ELSE typed.notes,
                pmid)

(* lines 413-429, 2323-2345 *)
getPubMedRetractionInfoForDoi(outcome) ==
    IF outcome.search # ""
    THEN Verdict("unknown", << <<"PubMed error:", outcome.search>> >>, <<>>)
    ELSE IF outcome.pmid = <<>>
    THEN Verdict("ok", << <<"PubMed:", "no record found for this DOI.">> >>, <<>>)
    ELSE IF outcome.summary # ""
    THEN Verdict("unknown", << <<"PubMed error:", outcome.summary>> >>, <<>>)
    ELSE determineRetractionStatusFromPubMedSummary(outcome.pmid, outcome.pubtype)

(* What the index of the page can say on one DOI; the request for the      *)
(* index may have failed (lines 181-188, 2103-2107: an empty Set then).    *)
PageIndexLookups == IndexLookups \cup {"load failed"}

(* v1 lines 193-197: a boolean; v3 lines 2113-2138: a verdict.             *)
RetractionWatchLookup(variant, lookup) ==
    IF variant = "v1"
    THEN [Verdict("", <<>>, <<>>) EXCEPT !.hit = isDoiInRetractionWatch(lookup)]
    ELSE Verdict(getRetractionWatchInfoForDoi(lookup),
                 << <<"Retraction Watch CSV:",
                      CASE lookup \in {"not loaded", "load failed"} ->
                             "could not be loaded or was empty."
                        [] lookup = "present" -> "DOI present in retraction_watch.csv."
                        [] OTHER -> "DOI not found in retraction_watch.csv.">> >>,
                 <<>>)

(* What the call of one adapter settles with.                              *)
AdapterCall(variant, adapter, world) ==
    CASE adapter = "crossref" -> getCrossrefRetractionInfoForDoi(world.crossref)
      [] adapter = "pubmed" -> getPubMedRetractionInfoForDoi(world.pubmed)
      [] OTHER -> RetractionWatchLookup(variant, world.retractionWatch)

(* Promise.all resolves with the values in the order of the array it was   *)
(* given, whatever the order in which they settled.                        *)
PromiseAllInArrivalOrder(settled, values) ==
    [k \in 1..Len(settled) |-> values[settled[k]]]

PromiseAll(settled, values) ==
    [k \in 1..Len(AdapterOrder) |-> values[AdapterOrder[k]]]

PmidNote(pm) ==
    IF pm.pmid # <<>> THEN << <<"PubMed PMID:", pm.pmid[1]>> >> ELSE <<>>

(* v1, lines 439-462 *)
CombinedInfoV1IndexFirst(results, isRetractedOpenAlex) ==
    LET cr == results[1]
        pm == results[2]
        rwHit == results[3].hit
    IN  [status |-> CombineV1(cr.status, pm.status, rwHit, isRetractedOpenAlex),
         notes |-> (IF rwHit
                    THEN << <<"Retraction Watch index:", "DOI present.">> >>
                    ELSE <<>>)
                   \o (IF isRetractedOpenAlex
                       THEN << <<"OpenAlex:", "is_retracted = true.">> >>
                       ELSE <<>>)
                   \o cr.notes \o pm.notes \o PmidNote(pm)]

CombinedInfoV1(results, isRetractedOpenAlex) ==
    LET cr == results[1]
        pm == results[2]
        rwHit == results[3].hit
    IN  [status |-> CombineV1(cr.status, pm.status, rwHit, isRetractedOpenAlex),
         notes |-> cr.notes \o pm.notes
                   \o (IF rwHit
                       THEN << <<"Retraction Watch index:", "DOI present.">> >>
                       ELSE <<>>)
                   \o (IF isRetractedOpenAlex
                       THEN << <<"OpenAlex:", "is_retracted = true.">> >>
                       ELSE <<>>)
                   \o PmidNote(pm)]

(* v3, lines 2347-2372 *)
CombinedInfoV3(results) ==
    LET crossrefInfo == results[1]
        pubmedInfo == results[2]
        rwInfo == results[3]
    IN  [status |-> CombineV3(crossrefInfo.status, pubmedInfo.status, rwInfo.status),
         notes |-> crossrefInfo.notes \o pubmedInfo.notes \o rwInfo.notes
                   \o PmidNote(pubmedInfo)]

(* v1 lines 488-499, v3 line 2446: the entry of a reference without DOI.   *)
NoDoiEntry(variant) ==
    IF variant = "v1"
    THEN [status |-> "problem_no_doi",
          notes |-> << <<"No DOI available;",
                         "cannot check Crossref/PubMed/Retraction Watch.">> >>]
    ELSE [status |-> "no_doi", notes |-> << <<"No DOI available.">> >>]

(* v1 lines 501-504: a status that has no score, or score 0, becomes ok;   *)
(* v3 lines 2448-2458: the combined status as it is.                       *)
StatusAsCombined(variant, status) == status

FinalStatus(variant, status) ==
    IF variant = "v1" /\ ScoreOrZero(status) = 0 THEN "ok" ELSE status

NoEntry == [status |-> "", notes |-> <<>>]

(* v1 lines 483 and 488, v3 lines 2444 and 2448: refDoi is work.doi, or    *)
(* null when the work has none.                                            *)
HasDoiAlways(refDoi) == TRUE

HasDoi(refDoi) == refDoi # <<>>

RefDois == {<<>>, <<"https://doi.org/", "10.1/A">>}

Unsettled == [a \in AdapterNames |-> NotSettled]

DefaultWorld ==
    [crossref |-> CrossrefMessage(<<>>, "none"), pubmed |-> PubMedNoRecord,
     retractionWatch |-> "absent"]

(* OpenAlex has answered with the work of one reference.                   *)
InitClassify ==
    /\ sheet = <<>>
    /\ RunnerAtRest
    /\ merge = NoMerge
    /\ resolve = NoResolve
    /\ rwLoad = NoRwLoad
    /\ calc = NoCalc
    /\ report = NoReport
    /\ \E v \in ClassifyVariants, doi \in RefDois, oa \in BOOLEAN,
          cro \in CrossrefOutcomes, pmo \in PubMedOutcomes, rw \in PageIndexLookups,
          rwIndex \in RwIndexes :
          /\ v = "batched" \/ doi = <<>> =>
                /\ cro = DefaultWorld.crossref
                /\ pmo = DefaultWorld.pubmed
                /\ rw = DefaultWorld.retractionWatch
          /\ v # "batched" => rwIndex = {}
          /\ classify = [pc |-> "called", variant |-> v, doi |-> doi,
                         is_retracted |-> oa, rwIndex |-> rwIndex,
                         world |-> [crossref |-> cro, pubmed |-> pmo,
                                    retractionWatch |-> rw],
                         queried |-> {}, settled |-> <<>>, values |-> Unsettled,
                         results |-> <<>>, retInfo |-> NoEntry, entry |-> NoEntry]

(* part_000 lines 276-323: classifyReference asks no adapter; it looks the *)
(* DOI up in the index the page holds.                                     *)
ClassifyBatched ==
    /\ classify.pc = "called"
    /\ classify.variant = "batched"
    /\ LET e == classifyReference([id |-> 1, doi |-> classify.doi,
                                   is_retracted |-> classify.is_retracted],
                                  1, classify.rwIndex)
       IN  classify' = [classify EXCEPT
                          !.pc = "done",
                          !.queried = IF classify.doi # <<>> /\ classify.rwIndex # {}
                                      THEN {"retractionWatch"} ELSE {},
                          !.entry = [status |-> e.status, notes |-> e.notes]]
    /\ UNCHANGED <<runnerVars, merge, resolve, rwLoad, calc, report>>

(* v1 lines 482-499, v3 lines 2444-2450: a reference without DOI.          *)
ClassifyNoDoi ==
    /\ classify.pc = "called"
    /\ classify.variant # "batched"
    /\ ~HasDoi(classify.doi)
    /\ classify' = [classify EXCEPT !.pc = "done",
                                    !.entry = NoDoiEntry(classify.variant)]
    /\ UNCHANGED <<runnerVars, merge, resolve, rwLoad, calc, report>>

(* lines 440-444, 2348-2352: the three calls are started.                  *)
FanOut ==
    /\ classify.pc = "called"
    /\ classify.variant # "batched"
    /\ HasDoi(classify.doi)
    /\ classify' = [classify EXCEPT !.pc = "pending", !.queried = AdapterNames]
    /\ UNCHANGED <<runnerVars, merge, resolve, rwLoad, calc, report>>

(* One of the started calls settles.                                       *)
AdapterSettles(a) ==
    /\ classify.pc = "pending"
    /\ a \in classify.queried
    /\ \A k \in 1..Len(classify.settled) : classify.settled[k] # a
    /\ classify' = [classify EXCEPT
                      !.settled = Append(@, a),
                      !.values[a] = AdapterCall(classify.variant, a, classify.world)]
    /\ UNCHANGED <<runnerVars, merge, resolve, rwLoad, calc, report>>

AllSettled == Len(classify.settled) = Len(AdapterOrder)

(* lines 446-461 and 501-515, 2354-2371 and 2452-2459: Promise.all has     *)
(* resolved; the verdicts are combined and the entry is made.              *)
FanIn ==
    /\ classify.pc = "pending"
    /\ AllSettled
    /\ LET results == PromiseAll(classify.settled, classify.values)
           retInfo == IF classify.variant = "v1"
                      THEN CombinedInfoV1(results, classify.is_retracted)
                      ELSE CombinedInfoV3(results)
       IN  classify' = [classify EXCEPT
                          !.pc = "done",
                          !.results = results,
                          !.retInfo = retInfo,
                          !.entry = [status |-> FinalStatus(classify.variant,
                                                            retInfo.status),
                                     notes |-> retInfo.notes]]
    /\ UNCHANGED <<runnerVars, merge, resolve, rwLoad, calc, report>>

NextClassify ==
    \/ ClassifyBatched
    \/ ClassifyNoDoi
    \/ FanOut
    \/ \E a \in AdapterNames : AdapterSettles(a)
    \/ FanIn

SpecClassify == InitClassify /\ [][NextClassify]_vars

----------------------------------------------------------------------------
(* Properties of the classification: the reference without DOI *)

NoDoiStatuses == {"no_doi", "problem_no_doi"}

(* C15 as stated: a reference without DOI is always given the no-DOI       *)
(* status and its fixed note, no adapter is asked about it and it gets no  *)
(* other status.                                                           *)
C15_AsStated ==
    classify.pc # "closed" /\ classify.doi = <<>> =>
        /\ classify.queried = {}
        /\ classify.pc = "done" =>
              /\ classify.entry.status \in NoDoiStatuses
              /\ classify.entry.notes = NoDoiEntry(classify.variant).notes
                 \/ classify.entry.notes =
                      << <<"No DOI available; cannot consult DOI-based indexes.">> >>

(* C15: no adapter is ever asked about a reference without DOI, and such a *)
(* reference gets the no-DOI status with the one fixed note of its         *)
(* variant, except in the batched variant when OpenAlex flags the work as  *)
(* retracted: then its status is retracted and its only note is            *)
(* OpenAlex's.                                                             *)
C15_NoDoi ==
    classify.pc # "closed" /\ classify.doi = <<>> =>
        /\ classify.queried = {}
        /\ classify.settled = <<>>
        /\ classify.pc \in {"called", "done"}
        /\ classify.pc = "done" =>
              CASE classify.variant = "batched" /\ classify.is_retracted ->
                     /\ classify.entry.status = "retracted"
                     /\ classify.entry.notes = << <<"OpenAlex: is_retracted = true.">> >>
                [] classify.variant = "batched" ->
                     /\ classify.entry.status = "problem_no_doi"
                     /\ classify.entry.notes =
                          << <<"No DOI available; cannot consult DOI-based indexes.">> >>
                [] classify.variant = "v1" ->
                     /\ classify.entry.status = "problem_no_doi"
                     /\ classify.entry.notes =
                          << <<"No DOI available;",
                               "cannot check Crossref/PubMed/Retraction Watch.">> >>
                [] OTHER ->
                     /\ classify.entry.status = "no_doi"
                     /\ classify.entry.notes = << <<"No DOI available.">> >>

C15_Witness ==
    /\ classify.pc = "done"
    /\ classify.variant = "v3"
    /\ classify.doi = <<>>
    /\ classify.is_retracted
    /\ classify.entry.status = "no_doi"
    /\ classify.queried = {}

----------------------------------------------------------------------------
(* Properties of the classification: both provider calls fail *)

CrossrefCallFailed == classify.world.crossref.failure # ""

PubMedCallFailed ==
    \/ classify.world.pubmed.search # ""
    \/ classify.world.pubmed.pmid # <<>> /\ classify.world.pubmed.summary # ""

PubMedFailure ==
    IF classify.world.pubmed.search # "" THEN classify.world.pubmed.search
    ELSE classify.world.pubmed.summary

(* Neither the index nor OpenAlex's flag (which only v1 reads) marks it.   *)
NotMarked ==
    /\ classify.world.retractionWatch # "present"
    /\ classify.variant = "v1" => ~classify.is_retracted

BothCallsFailed ==
    /\ classify.pc = "done"
    /\ classify.variant \in {"v1", "v3"}
    /\ classify.doi # <<>>
    /\ CrossrefCallFailed
    /\ PubMedCallFailed
    /\ NotMarked

IsPrefix(p, q) == Len(p) <= Len(q) /\ SubSeq(q, 1, Len(p)) = p

FailureNotes ==
    << <<"Crossref error:", classify.world.crossref.failure>>,
       <<"PubMed error:", PubMedFailure>> >>

----------------------------------------------------------------------------
(* Properties of the classification: fan-out and fan-in *)

(* What each source says in the world of this reference, whenever asked.   *)
VerdictOf(a) == AdapterCall(classify.variant, a, classify.world)

(* The combination of the verdicts taken source by source.                 *)
InfoBySource ==
    LET bySource == <<VerdictOf("crossref"), VerdictOf("pubmed"),
                      VerdictOf("retractionWatch")>>
    IN  IF classify.variant = "v1"
        THEN CombinedInfoV1(bySource, classify.is_retracted)
        ELSE CombinedInfoV3(bySource)

SettledSet == {classify.settled[k] : k \in 1..Len(classify.settled)}

(* C17: the verdicts of one DOI are combined only once every started       *)
(* adapter call has settled with a verdict, and the combined status and    *)
(* notes depend on what the sources said only, not on the order in which   *)
(* the calls completed.                                                    *)
C17_FanInDeterministic ==
    /\ classify.pc = "pending" =>
          /\ classify.retInfo = NoEntry
          /\ classify.entry = NoEntry
          /\ \A a \in AdapterNames \ SettledSet : classify.values[a] = NotSettled
    /\ classify.pc = "done" /\ classify.queried = AdapterNames =>
          /\ SettledSet = AdapterNames
          /\ Len(classify.settled) = Cardinality(AdapterNames)
          /\ \A a \in AdapterNames :
                /\ ~classify.values[a].thrown
                /\ classify.values[a] = VerdictOf(a)
          /\ classify.retInfo = InfoBySource
          /\ classify.entry.notes = InfoBySource.notes

C17_Witness ==
    /\ classify.pc = "done"
    /\ classify.variant = "v1"
    /\ classify.settled = <<"retractionWatch", "pubmed", "crossref">>
    /\ classify.values["crossref"].status = "withdrawn"
    /\ classify.values["pubmed"].status = "expression_of_concern"
    /\ classify.values["retractionWatch"].hit = FALSE
    /\ ~classify.is_retracted
    /\ classify.retInfo.status = "withdrawn"

----------------------------------------------------------------------------
(* Properties of the classification: the order of the notes *)

SourceOf(note) ==
    CASE note[1] \in {"Retraction Watch index:", "Retraction Watch CSV:"} -> "index"
      [] note[1] = "OpenAlex:" -> "self-flag"
      [] note[1] \in {"Crossref:", "Crossref relation:", "Crossref error:"} -> "registrar"
      [] note[1] \in {"PubMed:", "PubMed error:"} -> "record-type"
      [] note[1] = "PubMed PMID:" -> "pmid"
      [] OTHER -> "none"

(* The order of the sources as the statement has it.                       *)
StatedOrder == <<"index", "self-flag", "registrar", "record-type", "pmid">>

(* The order of the sources as lines 447-459 and 2359-2364 have it.        *)
CodeOrder == <<"registrar", "record-type", "index", "self-flag", "pmid">>

PlaceIn(order, source) == CHOOSE k \in 1..Len(order) : order[k] = source

InOrder(order, notes) ==
    \A i, j \in 1..Len(notes) :
        i < j => PlaceIn(order, SourceOf(notes[i])) <= PlaceIn(order, SourceOf(notes[j]))

Combined == classify.pc = "done" /\ classify.queried = AdapterNames

(* C18 as stated: the notes of a combined verdict come in the order index  *)
(* membership, self-flag, registrar feed, record-type feed.                *)
C18_AsStated == Combined => InOrder(StatedOrder, classify.entry.notes)

(* C18: the notes of a combined verdict are, in this order, the notes of   *)
(* Crossref, the notes of PubMed, the note of the Retraction Watch index   *)
(* (v1: only when the DOI is in it), the note of OpenAlex's flag (v1 only, *)
(* when set), and the PMID when PubMed found one.                          *)
C18_NotesInCodeOrder ==
    Combined =>
        LET cr == classify.values["crossref"]
            pm == classify.values["pubmed"]
            rw == classify.values["retractionWatch"]
            notes == classify.entry.notes
            from(source) == SelectSeq(notes, LAMBDA n : SourceOf(n) = source)
        IN  /\ InOrder(CodeOrder, notes)
            /\ from("registrar") = cr.notes /\ cr.notes # <<>>
            /\ from("record-type") = pm.notes /\ pm.notes # <<>>
            /\ from("index") =
                  IF classify.variant = "v1"
                  THEN (IF rw.hit
                        THEN << <<"Retraction Watch index:", "DOI present.">> >>
                        ELSE <<>>)
                  ELSE rw.notes
            /\ classify.variant = "v3" => Len(rw.notes) = 1
            /\ from("self-flag") =
                  IF classify.variant = "v1" /\ classify.is_retracted
                  THEN << <<"OpenAlex:", "is_retracted = true.">> >>
                  ELSE <<>>
            /\ from("pmid") =
                  IF pm.pmid # <<>> THEN << <<"PubMed PMID:", pm.pmid[1]>> >> ELSE <<>>
            /\ from("none") = <<>>

C18_Witness ==
    /\ Combined
    /\ classify.variant = "v1"
    /\ classify.values["retractionWatch"].hit
    /\ classify.is_retracted
    /\ classify.values["pubmed"].pmid # <<>>
    /\ Len(classify.values["crossref"].notes) = 2
    /\ Len(classify.entry.notes) = 6

----------------------------------------------------------------------------
(* Properties of the classification: the failures of the adapters *)

IndexLoadFailed == classify.world.retractionWatch = "load failed"

Captured(v, note) ==
    /\ ~v.thrown
    /\ v.status = "unknown"
    /\ v.notes = <<note>>

(* C19 as stated: an adapter whose underlying request failed answers       *)
(* unknown with the reason, and never throws.                              *)
C19_AsStated ==
    classify.pc \in {"pending", "done"} =>
        /\ "crossref" \in SettledSet /\ CrossrefCallFailed =>
              Captured(classify.values["crossref"],
                       <<"Crossref error:", classify.world.crossref.failure>>)
        /\ "pubmed" \in SettledSet /\ PubMedCallFailed =>
              Captured(classify.values["pubmed"], <<"PubMed error:", PubMedFailure>>)
        /\ "retractionWatch" \in SettledSet /\ IndexLoadFailed =>
              /\ ~classify.values["retractionWatch"].thrown
              /\ classify.values["retractionWatch"].status = "unknown"
              /\ classify.values["retractionWatch"].notes # <<>>

(* C19: no adapter throws.  Crossref and PubMed answer unknown with the    *)
(* reason when a request of theirs fails or a summary is missing; PubMed   *)
(* answers ok when it has no record of the DOI; the index lookup answers   *)
(* "not in the index" (v1: false, v3: ok with a note) when the index       *)
(* could not be loaded.                                                    *)
C19_FailuresCaptured ==
    classify.pc \in {"pending", "done"} =>
        /\ \A a \in SettledSet : ~classify.values[a].thrown
        /\ "crossref" \in SettledSet /\ CrossrefCallFailed =>
              Captured(classify.values["crossref"],
                       <<"Crossref error:", classify.world.crossref.failure>>)
        /\ "pubmed" \in SettledSet /\ PubMedCallFailed =>
              /\ Captured(classify.values["pubmed"], <<"PubMed error:", PubMedFailure>>)
              /\ classify.values["pubmed"].pmid = <<>>
        /\ "pubmed" \in SettledSet /\ classify.world.pubmed = PubMedNoRecord =>
              /\ classify.values["pubmed"].status = "ok"
              /\ classify.values["pubmed"].notes =
                    << <<"PubMed:", "no record found for this DOI.">> >>
        /\ "retractionWatch" \in SettledSet /\ IndexLoadFailed =>
              /\ ~classify.values["retractionWatch"].hit
              /\ classify.values["retractionWatch"].status =
                    (IF classify.variant = "v1" THEN "" ELSE "ok")
              /\ classify.values["retractionWatch"].notes =
                    (IF classify.variant = "v1" THEN <<>>
                     ELSE << <<"Retraction Watch CSV:",
                               "could not be loaded or was empty.">> >>)

C19_Witness ==
    /\ classify.pc = "done"
    /\ classify.variant = "v3"
    /\ classify.world.crossref.failure = "HTTP 429"
    /\ classify.world.pubmed.summary = "PubMed esummary: missing result"
    /\ IndexLoadFailed
    /\ classify.values["crossref"].status = "unknown"
    /\ classify.values["pubmed"].status = "unknown"
    /\ classify.values["retractionWatch"].status = "ok"

----------------------------------------------------------------------------
(* app.js lines 152-197, code.gs lines 449-501: the Retraction Watch index *)
(* over one lifetime, of the page ("page": rwIndexPromise) or of one       *)
(* execution of the script ("script": RW_CACHE).                           *)

MaxLookups == 3

Lifetimes == {"page", "script"}

LookupDois == {<<"https://doi.org/", "10.1/A">>, <<"10.1/c">>}

(* lines 153 and 157: a fetch is started when no promise is held.          *)
StartsFetchUnlessIndexHeld(promise, index) == promise # "resolved" \/ index = {}

StartsFetch(promise, index) == promise = "null"

(* lines 158-189: the Set the promise resolves with; a failed request, a   *)
(* status that is not ok and a text without DOIs all give an empty Set.    *)
PageIndex(o) ==
    IF o.kind = "exc" \/ o.code # 200 THEN {}
    ELSE {normalizeDoi(o.text[i]) : i \in {j \in 1..Len(o.text) :
                                             normalizeDoi(o.text[j]) # <<>>}}

(* lines 155 and 175-186: rwIndexMeta *)
PageMetaKeepingLoaded(o) ==
    IF o.kind = "exc" THEN [loaded |-> TRUE, size |-> 0, error |-> "Failed to fetch"]
    ELSE IF o.code # 200 THEN [loaded |-> TRUE, size |-> 0, error |-> "HTTP"]
    ELSE [loaded |-> TRUE, size |-> Cardinality(PageIndex(o)), error |-> ""]

PageMeta(o) ==
    IF o.kind = "exc" THEN [loaded |-> FALSE, size |-> 0, error |-> "Failed to fetch"]
    ELSE IF o.code # 200 THEN [loaded |-> FALSE, size |-> 0, error |-> "HTTP"]
    ELSE [loaded |-> TRUE, size |-> Cardinality(PageIndex(o)), error |-> ""]

InitIndex ==
    /\ sheet = <<>>
    /\ RunnerAtRest
    /\ merge = NoMerge
    /\ resolve = NoResolve
    /\ classify = NoClassify
    /\ calc = NoCalc
    /\ report = NoReport
    /\ \E lifetime \in Lifetimes, o \in IndexOutcomes :
          rwLoad = [pc |-> "open", lifetime |-> lifetime, outcome |-> o,
                    rwIndexPromise |-> "null", index |-> {},
                    rwIndexMeta |-> [loaded |-> FALSE, size |-> 0, error |-> ""],
                    RW_CACHE |-> NoCache,
                    fetches |-> 0, issued |-> 0, waiting |-> <<>>, answers |-> <<>>]

(* lines 193-194: isDoiInRetractionWatch calls ensureRetractionWatchIndex, *)
(* which starts the fetch if no promise is held, and awaits the promise.   *)
PageLookup ==
    /\ rwLoad.pc = "open"
    /\ rwLoad.lifetime = "page"
    /\ rwLoad.issued < MaxLookups
    /\ \E doi \in LookupDois :
          LET starts == StartsFetch(rwLoad.rwIndexPromise, rwLoad.index)
          IN  rwLoad' = [rwLoad EXCEPT
                 !.issued = @ + 1,
                 !.fetches = IF starts THEN @ + 1 ELSE @,
                 !.rwIndexPromise = IF starts THEN "pending" ELSE @,
                 !.rwIndexMeta = IF starts
                                 THEN [loaded |-> FALSE, size |-> 0, error |-> ""]
                                 ELSE @,
                 !.waiting = Append(@, [doi |-> doi, when |-> rwLoad.rwIndexPromise])]
    /\ UNCHANGED <<runnerVars, merge, resolve, classify, calc, report>>

(* lines 158-189: the request settles; the promise resolves either way.    *)
FetchSettles ==
    /\ rwLoad.pc = "open"
    /\ rwLoad.lifetime = "page"
    /\ rwLoad.rwIndexPromise = "pending"
    /\ rwLoad' = [rwLoad EXCEPT !.rwIndexPromise = "resolved",
                                !.index = PageIndex(rwLoad.outcome),
                                !.rwIndexMeta = PageMeta(rwLoad.outcome)]
    /\ UNCHANGED <<runnerVars, merge, resolve, classify, calc, report>>

(* lines 195-196: a lookup resumes with the Set of the promise.            *)
LookupResumes ==
    /\ rwLoad.pc = "open"
    /\ rwLoad.lifetime = "page"
    /\ rwLoad.rwIndexPromise = "resolved"
    /\ rwLoad.waiting # <<>>
    /\ LET w == Head(rwLoad.waiting)
       IN  rwLoad' = [rwLoad EXCEPT
              !.waiting = Tail(@),
              !.answers = Append(@, [doi |-> w.doi, when |-> w.when,
                                     hit |-> /\ rwLoad.index # {}
                                             /\ normalizeDoi(w.doi) \in rwLoad.index])]
    /\ UNCHANGED <<runnerVars, merge, resolve, classify, calc, report>>

(* code.gs lines 449-501: getRetractionWatchCache_ and the lookup in its   *)
(* map, in one go: UrlFetchApp.fetch is synchronous.                       *)
ScriptLookup ==
    /\ rwLoad.pc = "open"
    /\ rwLoad.lifetime = "script"
    /\ rwLoad.issued < MaxLookups
    /\ \E doi \in LookupDois :
          LET cache == getRetractionWatchCache_(rwLoad.RW_CACHE, rwLoad.outcome)
          IN  rwLoad' = [rwLoad EXCEPT
                 !.issued = @ + 1,
                 !.fetches = IF rwLoad.RW_CACHE.loaded THEN @ ELSE @ + 1,
                 !.RW_CACHE = cache,
                 !.answers = Append(@, [doi |-> doi,
                                        when |-> IF rwLoad.RW_CACHE.loaded
                                                 THEN "resolved" ELSE "null",
                                        hit |-> InIndex(doi, cache)])]
    /\ UNCHANGED <<runnerVars, merge, resolve, classify, calc, report>>

NextIndex ==
    \/ PageLookup
    \/ FetchSettles
    \/ LookupResumes
    \/ ScriptLookup

SpecIndex == InitIndex /\ [][NextIndex]_vars

----------------------------------------------------------------------------
(* Properties of the index: one fetch per lifetime *)

LoadFailed ==
    IF rwLoad.lifetime = "page"
    THEN rwLoad.rwIndexPromise = "resolved" /\ rwLoad.rwIndexMeta.error # ""
    ELSE rwLoad.RW_CACHE.loaded /\ rwLoad.RW_CACHE.error # ""

(* C20: over one lifetime the index is fetched once: the first lookup      *)
(* starts the fetch and no later lookup starts another, be it issued       *)
(* while the first fetch is pending or after it has failed.                *)
C20_OneFetch ==
    rwLoad.pc = "open" =>
        /\ rwLoad.fetches = (IF rwLoad.issued = 0 THEN 0 ELSE 1)
        /\ rwLoad.lifetime = "page" =>
              (rwLoad.rwIndexPromise = "null") = (rwLoad.issued = 0)
        /\ rwLoad.lifetime = "script" => rwLoad.RW_CACHE.loaded = (rwLoad.issued > 0)

C20_Witness ==
    /\ rwLoad.pc = "open"
    /\ rwLoad.lifetime = "page"
    /\ LoadFailed
    /\ Len(rwLoad.answers) = MaxLookups
    /\ rwLoad.answers[1].when = "null"
    /\ rwLoad.answers[2].when = "pending"
    /\ rwLoad.answers[MaxLookups].when = "resolved"
    /\ rwLoad.fetches = 1

----------------------------------------------------------------------------
(* The script's runner, the script's resolver with an index that failed   *)
(* to load, and the index of a lifetime, side by side.                     *)

InitFailSoft ==
    \/ Init
    \/ InitIndex
    \/ InitResolve /\ resolve.variant = "sheet"

NextFailSoft == Next \/ NextIndex \/ SheetResolve

SpecFailSoft == InitFailSoft /\ [][NextFailSoft]_vars

Decided == {"RETRACTED", "CITES RETRACTED", "NO RETRACTED CITATIONS FOUND"}

(* C21: a failed load of the index throws nothing and leaves an index      *)
(* without entries: every lookup answers "not present", and the script's   *)
(* runner still processes its rows, each with the status, count and DOIs   *)
(* it would get from OpenAlex alone.                                       *)
C21_FailSoft ==
    /\ \A r \in Runners :
          rwCache[r].loaded /\ rwCache[r].error # "" =>
             /\ ~rwCache[r].hasMap
             /\ rwCache[r].map = {}
             /\ \A i \in 1..Len(data[r]) : ~InIndex(data[r][i].doi, rwCache[r])
             /\ LET i == last[r].row
                    alone == checkReferencesForDoi_(Trim(data[r][i].doi), NoCache,
                                                    last[r].world)
                IN  i # 0 =>
                       /\ Committed(sheet[i])
                       /\ sheet[i].status = alone.statusLabel
                       /\ sheet[i].refs = alone.referencesEvaluated
                       /\ sheet[i].retr = alone.retractedDoisText
                       /\ GoesOnAfter(r, i)
             /\ (pc[r] = "ret" /\ brk[r] = "end")
                => \A j \in EligibleRows(data[r]) : Committed(sheet[j])
    /\ resolve.pc = "done" /\ resolve.variant = "sheet" =>
          LET result == resolve.result
          IN  /\ result.statusLabel # ""
              /\ result.retractedDoisText = <<>>
              /\ \A k \in 1..Len(result.reason) : result.reason[k][1] # "via RW index:"
              /\ result.statusLabel \in Decided /\ result.referencesEvaluated # <<0>> =>
                    result.reason[Len(result.reason)] =
                       <<"RW index unavailable - only OpenAlex used for flags">>
    /\ rwLoad.pc = "open" /\ LoadFailed =>
          /\ rwLoad.lifetime = "page" => rwLoad.index = {}
          /\ rwLoad.lifetime = "script" =>
                ~rwLoad.RW_CACHE.hasMap /\ rwLoad.RW_CACHE.map = {}
          /\ \A k \in 1..Len(rwLoad.answers) : ~rwLoad.answers[k].hit

C21_Witness ==
    /\ resolve.pc = "done"
    /\ resolve.variant = "sheet"
    /\ resolve.result.statusLabel = "NO RETRACTED CITATIONS FOUND"
    /\ resolve.result.referencesEvaluated = <<6>>
    /\ Len(resolve.result.reason) = 3

----------------------------------------------------------------------------
(* Properties of the index: its load-state *)

(* lines 137-150: the state updateRwStatus shows.                          *)
LoadState(meta) ==
    IF meta.loaded THEN "ready" ELSE IF meta.error # "" THEN "failed" ELSE "loading"

(* The same reading of RW_CACHE (code.gs lines 450 and 459-499).           *)
CacheState(cache) ==
    IF ~cache.loaded THEN "loading" ELSE IF cache.error # "" THEN "failed" ELSE "ready"

(* C22: the load-state of the index is loading, ready or failed, never     *)
(* loaded and carrying an error at once; it leaves loading for ready or    *)
(* for failed, and once ready or failed it never changes again.            *)
C22_LoadStateLifecycle ==
    /\ [](rwLoad.pc = "open" =>
            /\ ~(rwLoad.rwIndexMeta.loaded /\ rwLoad.rwIndexMeta.error # "")
            /\ ~(rwLoad.RW_CACHE.hasMap /\ rwLoad.RW_CACHE.error # "")
            /\ rwLoad.RW_CACHE.loaded =>
                  (rwLoad.RW_CACHE.hasMap \/ rwLoad.RW_CACHE.error # "")
            /\ (rwLoad.rwIndexPromise = "resolved")
                  = (rwLoad.lifetime = "page"
                     /\ LoadState(rwLoad.rwIndexMeta) \in {"ready", "failed"}))
    /\ [][rwLoad.pc = "open" =>
            /\ LoadState(rwLoad.rwIndexMeta) \in {"ready", "failed"}
                  => rwLoad'.rwIndexMeta = rwLoad.rwIndexMeta
                     /\ rwLoad'.index = rwLoad.index
            /\ CacheState(rwLoad.RW_CACHE) \in {"ready", "failed"}
                  => rwLoad'.RW_CACHE = rwLoad.RW_CACHE]_vars

C22_Witness ==
    /\ rwLoad.pc = "open"
    /\ rwLoad.lifetime = "page"
    /\ LoadState(rwLoad.rwIndexMeta) = "ready"
    /\ rwLoad.rwIndexMeta.size = 1
    /\ Len(rwLoad.answers) = MaxLookups
    /\ rwLoad.answers[MaxLookups].when = "resolved"
    /\ rwLoad.answers[MaxLookups].hit

----------------------------------------------------------------------------
(* code.gs lines 163-268: checkReferencesForDoi_ on one DOI, over what the *)
(* provider can answer to the request for the focal work.                  *)

MaxTransient == 3

(* The transient failures that come before the final answer.               *)
TransientPrefixes == UNION {[1..n -> {"429", "exc"}] : n \in 0..MaxTransient}

FocalFinals ==
    { Http(404), Http(500), Http(403), BadJson, NullJson,
      WorkOk(FALSE, <<>>), WorkOk(TRUE, <<>>),
      WorkOk(FALSE, Ids(2)), WorkOk(TRUE, Ids(2)) }

(* What OpenAlex answers to the requests for the references: the works,    *)
(* one of them flagged; a body without results; a status that is not 200;  *)
(* 429 on every attempt.                                                   *)
FocalBatchAnswers ==
    { Now(RefsOk(TwoResults)),
      Now(RefsOk(<<RefWork(<<"https://doi.org/", "10.1/c">>, TRUE)>>)),
      Now(RefsNoResults), Now(Http(500)),
      Script(<<"429", "429", "429">>, Http(429)) }

FocalWorlds ==
    { World("", Script(t, final), [b \in 1..3 |-> answer], 0) :
        t \in TransientPrefixes, final \in FocalFinals, answer \in FocalBatchAnswers }

FocalDois == {<<"10.1/a">>, <<"10.1/c">>}

InitFocal ==
    /\ sheet = <<>>
    /\ RunnerAtRest
    /\ merge = NoMerge
    /\ classify = NoClassify
    /\ rwLoad = NoRwLoad
    /\ calc = NoCalc
    /\ report = NoReport
    /\ \E doi \in FocalDois, o \in IndexOutcomes :
          resolve = [pc |-> "called", variant |-> "focal", doi |-> doi,
                     cache |-> LoadRetractionWatchCache(o),
                     focalWorld |-> NoWorld, result |-> NoRowResult]

FocalResolve ==
    /\ resolve.pc = "called"
    /\ resolve.variant = "focal"
    /\ \E world \in FocalWorlds :
          resolve' = [resolve EXCEPT
                        !.pc = "done",
                        !.focalWorld = world,
                        !.result = checkReferencesForDoi_(resolve.doi, resolve.cache,
                                                          world)]
    /\ UNCHANGED <<runnerVars, merge, classify, rwLoad, calc, report>>

NextFocal == FocalResolve

SpecFocal == InitFocal /\ [][NextFocal]_vars

----------------------------------------------------------------------------
(* Properties of the focal lookup *)

(* The provider was asked, and the focal request got its final answer.     *)
FocalAnswered ==
    /\ resolve.pc = "done"
    /\ resolve.variant = "focal"
    /\ ~InIndex(resolve.doi, resolve.cache)
    /\ Len(resolve.focalWorld.work.transient) <= maxRetries

FocalFinal == resolve.focalWorld.work.final

FocalCalls == fetchWithRetry_(resolve.focalWorld.work, "OpenAlex work").calls

(* C23: an answer that is neither an exception nor HTTP 429 is not         *)
(* retried: 404 gives UNKNOWN and another status that is not 200 or a body *)
(* that does not parse gives ERROR, with no request after it, so after     *)
(* exactly one request when it is the first answer.                        *)
C23_NoRetryOfFinalAnswers ==
    FocalAnswered =>
        /\ FocalCalls = Len(resolve.focalWorld.work.transient) + 1
        /\ FocalFinal.code = 404 =>
              /\ resolve.result.statusLabel = "UNKNOWN"
              /\ resolve.result.reason = << <<"OpenAlex: DOI not found">> >>
              /\ resolve.result.calls = FocalCalls
        /\ FocalFinal.code \notin {200, 404} =>
              /\ resolve.result.statusLabel = "ERROR"
              /\ resolve.result.reason = << <<"OpenAlex work HTTP", FocalFinal.code>> >>
              /\ resolve.result.calls = FocalCalls
        /\ FocalFinal = BadJson =>
              /\ resolve.result.statusLabel = "ERROR"
              /\ resolve.result.reason = << <<"OpenAlex work invalid JSON">> >>
              /\ resolve.result.calls = FocalCalls
        /\ (FocalFinal.code # 200 \/ FocalFinal = BadJson) =>
              /\ resolve.result.referencesEvaluated = <<>>
              /\ resolve.focalWorld.work.transient = <<>> =>
                    resolve.result.calls = 1 /\ resolve.result.sleeps = <<>>

C23_Witness ==
    /\ FocalAnswered
    /\ resolve.focalWorld.work.transient = <<>>
    /\ FocalFinal = Http(404)
    /\ resolve.result.statusLabel = "UNKNOWN"
    /\ resolve.result.calls = 1

----------------------------------------------------------------------------
(* code.gs lines 504-512, app.js lines 75-82: the normalisers applied to   *)
(* a text, and to their own result.                                        *)

MaxTokens == 3

Normalisers == {"normalizeDoi_", "normalizeDoi"}

DoiTokens ==
    ResolverPrefixes \cup DxResolverPrefixes \cup SchemePrefixes
    \cup {Blank, "10.1/A", "10.1/a"}

DoiTexts == UNION {[1..n -> DoiTokens] : n \in 0..MaxTokens}

ApplyNormaliser(fn, text) ==
    IF fn = "normalizeDoi_" THEN normalizeDoi_(text) ELSE normalizeDoi(text)

InitNormalise ==
    /\ sheet = <<>>
    /\ RunnerAtRest
    /\ merge = NoMerge
    /\ resolve = NoResolve
    /\ classify = NoClassify
    /\ rwLoad = NoRwLoad
    /\ report = NoReport
    /\ \E fn \in Normalisers, text \in DoiTexts :
          calc = [pc |-> "given", fn |-> fn, input |-> text, once |-> <<>>,
                  twice |-> <<>>]

NormaliseOnce ==
    /\ calc.pc = "given"
    /\ calc' = [calc EXCEPT !.pc = "once",
                            !.once = ApplyNormaliser(calc.fn, calc.input)]
    /\ UNCHANGED <<runnerVars, merge, resolve, classify, rwLoad, report>>

NormaliseAgain ==
    /\ calc.pc = "once"
    /\ calc' = [calc EXCEPT !.pc = "twice",
                            !.twice = ApplyNormaliser(calc.fn, calc.once)]
    /\ UNCHANGED <<runnerVars, merge, resolve, classify, rwLoad, report>>

NextNormalise == NormaliseOnce \/ NormaliseAgain

SpecNormalise == InitNormalise /\ [][NextNormalise]_vars

(* C24: normalising a normalised DOI changes nothing, whatever prefixes    *)
(* and blanks the text had.                                                *)
C24_Idempotent == calc.pc = "twice" => calc.twice = calc.once

----------------------------------------------------------------------------
(* app.js lines 690-739 and 948-984 (v1), 2432-2501 and 2613-2639 (v3),    *)
(* part_000 lines 415-491 and 611-650 (batched): the entries of an         *)
(* analysis, its counts, its table and its export.                         *)

MaxListed == 3

(* A referenced work as the providers hold it: whether OpenAlex returns    *)
(* it, its DOI, its OpenAlex flag and what Crossref says of its DOI.       *)
Listed(fetched, doi, is_retracted, crossref) ==
    [fetched |-> fetched, doi |-> doi, is_retracted |-> is_retracted,
     crossref |-> crossref]

PlainWork == Listed(TRUE, <<"https://doi.org/", "10.1/c">>, FALSE, "ok")
IndexedWork == Listed(TRUE, <<"https://doi.org/", "10.1/A">>, FALSE, "ok")
DoiLessWork == Listed(TRUE, <<>>, FALSE, "ok")
FlaggedDoiLessWork == Listed(TRUE, <<>>, TRUE, "ok")
MissingWork == Listed(FALSE, <<>>, FALSE, "ok")

ListedWorks ==
    {PlainWork, IndexedWork, DoiLessWork, FlaggedDoiLessWork, MissingWork,
     Listed(TRUE, <<"https://doi.org/", "10.1/c">>, FALSE, "corrected"),
     Listed(TRUE, <<"https://doi.org/", "10.1/c">>, FALSE, "withdrawn"),
     Listed(TRUE, <<"https://doi.org/", "10.1/c">>, FALSE, "unknown")}

(* The index the page holds: one retracted DOI.                            *)
ReportIndex == {<<"10.1/a">>}

ReportLookup(doi) == IF normalizeDoi(doi) \in ReportIndex THEN "present" ELSE "absent"

(* A long reference list: the works above followed by plain ones.          *)
PadLengths == {0, maxRefs}

Padded(works, n) == works \o [k \in 1..n |-> PlainWork]

(* v3 lines 2432-2433: referenced.slice(0, maxRefs); v1 and the batched    *)
(* variant walk the whole list.                                            *)
TruncatedNowhere(variant, referenced) == referenced

Truncated(variant, referenced) ==
    IF variant = "v3" THEN SubSeq(referenced, 1, Min(Len(referenced), maxRefs))
    ELSE referenced

(* The status of the entry of one listed work: v1 lines 692-703 and        *)
(* 482-517, v3 lines 2436-2481, part_000 lines 442-459.                    *)
EntryStatus(variant, work, refIdx) ==
    CASE variant = "batched" ->
           IF ~work.fetched
           THEN classifyReferenceError(refIdx, refIdx, "not returned in OpenAlex results").status
           ELSE classifyReference([isNull |-> FALSE, id |-> refIdx, doi |-> work.doi,
                                   is_retracted |-> work.is_retracted],
                                  refIdx, ReportIndex).status
      [] variant = "v1" ->
           IF ~work.fetched THEN "problem_unknown"
           ELSE IF ~HasDoi(work.doi) THEN NoDoiEntry("v1").status
           ELSE FinalStatus("v1", CombineV1(work.crossref, "ok",
                                            isDoiInRetractionWatch(ReportLookup(work.doi)),
                                            work.is_retracted))
      [] OTHER ->
           IF ~work.fetched THEN "unknown"
           ELSE IF ~HasDoi(work.doi) THEN NoDoiEntry("v3").status
           ELSE CombineV3(work.crossref, "ok",
                          getRetractionWatchInfoForDoi(ReportLookup(work.doi)))

Entries(variant, works) ==
    [k \in 1..Len(works) |-> [idx |-> k, status |-> EntryStatus(variant, works[k], k)]]

(* The buckets of the counts object: v1 lines 717-726, v3 lines 2484-2493, *)
(* part_000 lines 469-475 (whose test "status in counts" also finds the    *)
(* key total).                                                             *)
CountKeys(variant) ==
    CASE variant = "v1" -> {"retracted", "expression_of_concern", "withdrawn",
                            "corrected", "problem_no_doi", "problem_unknown", "ok"}
      [] variant = "v3" -> {"ok", "retracted", "expression_of_concern", "corrected",
                            "withdrawn", "no_doi", "unknown"}
      [] OTHER -> {"retracted", "problem_no_doi", "problem_unknown", "ok"}

(* v1 lines 728-731 and part_000 lines 477-483: a status without a bucket  *)
(* counts as ok; v3 lines 2495-2501: as unknown.                           *)
CountBucket(variant, status) ==
    IF status \in CountKeys(variant) THEN status
    ELSE IF variant = "v3" THEN "unknown" ELSE "ok"

NoCounts == [total |-> 0, by |-> [b \in {} |-> 0]]

(* The forEach of v1 lines 728-731, v3 lines 2495-2501, part_000 lines     *)
(* 477-483 adds one to the bucket of each entry: a bucket ends with the    *)
(* number of entries that fall into it.                                    *)
Counts(variant, refs) ==
    [total |-> Len(refs),
     by |-> [b \in CountKeys(variant) |->
               Cardinality({k \in 1..Len(refs) :
                              CountBucket(variant, refs[k].status) = b})]]

(* The order of the specification's Status: unknown and no_doi share a     *)
(* severity.                                                               *)
SharedSeverity(status) ==
    CASE status = "retracted" -> 5
      [] status \in {"expression_of_concern", "withdrawn"} -> 4
      [] status = "corrected" -> 3
      [] status \in {"problem_no_doi", "no_doi", "problem_unknown", "unknown"} -> 1
      [] OTHER -> 0

compareBySharedSeverity(a, b) ==
    IF SharedSeverity(a.status) # SharedSeverity(b.status)
    THEN SharedSeverity(b.status) - SharedSeverity(a.status)
    ELSE a.idx - b.idx

(* v1 lines 105-110, part_000 lines 79-84 (whose table, lines 72-77,       *)
(* ranks its four statuses in the same order).                             *)
compareBySeverity(a, b) ==
    IF ScoreOrZero(a.status) # ScoreOrZero(b.status)
    THEN ScoreOrZero(b.status) - ScoreOrZero(a.status)
    ELSE a.idx - b.idx

(* Array.prototype.sort with compareBySeverity: a stable sort.             *)
RECURSIVE InsertBySeverity(_, _)
InsertBySeverity(x, sorted) ==
    IF sorted = <<>> THEN <<x>>
    ELSE LET n == Len(sorted)
         IN  IF compareBySeverity(sorted[n], x) <= 0 THEN Append(sorted, x)
             ELSE Append(InsertBySeverity(x, SubSeq(sorted, 1, n - 1)), sorted[n])

RECURSIVE SortBySeverity(_)
SortBySeverity(refs) ==
    IF refs = <<>> THEN <<>>
    ELSE LET n == Len(refs)
         IN  InsertBySeverity(refs[n], SortBySeverity(SubSeq(refs, 1, n - 1)))

(* v1 lines 733-736, part_000 lines 485-488; v3 keeps no such list.        *)
Interesting(variant, refs) ==
    IF variant = "v3" THEN <<>>
    ELSE SortBySeverity(SelectSeq(refs, LAMBDA r : r.status # "ok"))

(* The row of the export for one entry, and its header row.                *)
HeaderRow(variant) ==
    IF variant = "v3" THEN [idx |-> 0, status |-> "index,status,year,title,doi,notes"]
    ELSE [idx |-> 0,
          status |-> "index,status,year,title,doi_or_openalex,citation,notes"]

(* v3 lines 2613-2628: every study is exported.                            *)
ExportedEntriesInterestingOnly(variant, allRefs, interesting) == interesting

(* v1 lines 948-975 and part_000 lines 611-640: the interesting entries    *)
(* are exported.                                                           *)
ExportedEntries(variant, allRefs, interesting) ==
    IF variant = "v3" THEN allRefs ELSE interesting

(* The first line of the export functions: nothing to export, no file.     *)
ExportRows(variant, allRefs, interesting) ==
    LET entries == ExportedEntries(variant, allRefs, interesting)
    IN  IF entries = <<>> THEN <<>> ELSE <<HeaderRow(variant)>> \o entries

InitReport ==
    /\ sheet = <<>>
    /\ RunnerAtRest
    /\ merge = NoMerge
    /\ resolve = NoResolve
    /\ classify = NoClassify
    /\ rwLoad = NoRwLoad
    /\ calc = NoCalc
    /\ \E v \in ClassifyVariants, n \in 0..MaxListed, pad \in PadLengths :
         \E works \in [1..n -> ListedWorks] :
            report = [pc |-> "listed", variant |-> v,
                      referenced |-> Padded(works, pad),
                      allRefs |-> <<>>, counts |-> NoCounts,
                      interesting |-> <<>>, rows |-> <<>>]

(* analyzeDoi from the reference loop to the counts and the table.         *)
Analyse ==
    /\ report.pc = "listed"
    /\ LET v == report.variant
           refs == Entries(v, Truncated(v, report.referenced))
       IN  report' = [report EXCEPT
                        !.pc = "analysed",
                        !.allRefs = refs,
                        !.counts = IF report.referenced = <<>> THEN NoCounts
                                   ELSE Counts(v, refs),
                        !.interesting = Interesting(v, refs)]
    /\ UNCHANGED <<runnerVars, merge, resolve, classify, rwLoad, calc>>

(* exportCurrentToCsv, exportCurrentStudiesToCsv *)
Export ==
    /\ report.pc = "analysed"
    /\ report' = [report EXCEPT
                    !.pc = "exported",
                    !.rows = ExportRows(report.variant, report.allRefs,
                                        report.interesting)]
    /\ UNCHANGED <<runnerVars, merge, resolve, classify, rwLoad, calc>>

NextReport == Analyse \/ Export

SpecReport == InitReport /\ [][NextReport]_vars

WithSubset == report.pc # "listed" /\ report.variant # "v3"

NotOk(refs) == {refs[k] : k \in {j \in 1..Len(refs) : refs[j].status # "ok"}}

SubsetIsNotOk ==
    /\ {report.interesting[k] : k \in 1..Len(report.interesting)} = NotOk(report.allRefs)
    /\ Len(report.interesting) = Cardinality(NotOk(report.allRefs))

(* C25 as stated: the interesting subset is the entries that are not ok,   *)
(* by descending severity of the Status order in which unknown and no_doi  *)
(* share a severity, every tie broken by ascending index.                  *)
C25_AsStated ==
    WithSubset =>
       /\ SubsetIsNotOk
       /\ \A k \in 1..(Len(report.interesting) - 1) :
             LET a == report.interesting[k]
                 b == report.interesting[k + 1]
             IN  \/ SharedSeverity(a.status) > SharedSeverity(b.status)
                 \/ /\ SharedSeverity(a.status) = SharedSeverity(b.status)
                    /\ a.idx < b.idx

(* C25: the interesting subset is the entries that are not ok, by          *)
(* descending score of STATUS_SCORE, in which no_doi ranks above unknown,  *)
(* every tie of score broken by ascending index.                           *)
C25_BySeverity ==
    WithSubset =>
       /\ SubsetIsNotOk
       /\ \A k \in 1..(Len(report.interesting) - 1) :
             LET a == report.interesting[k]
                 b == report.interesting[k + 1]
             IN  \/ ScoreOrZero(a.status) > ScoreOrZero(b.status)
                 \/ /\ ScoreOrZero(a.status) = ScoreOrZero(b.status)
                    /\ a.idx < b.idx

C25_Witness ==
    /\ WithSubset
    /\ Len(report.interesting) = 3
    /\ report.interesting[1].status = "problem_no_doi"
    /\ report.interesting[2].status = "problem_no_doi"
    /\ report.interesting[3].status = "problem_unknown"
    /\ report.interesting[3].idx < report.interesting[1].idx
    /\ report.interesting[1].idx < report.interesting[2].idx

RECURSIVE SumOfCounts(_, _)
SumOfCounts(by, keys) ==
    IF keys = {} THEN 0
    ELSE LET b == CHOOSE x \in keys : TRUE
         IN  by[b] + SumOfCounts(by, keys \ {b})

Counted == report.pc # "listed" /\ report.referenced # <<>>

NoDoiBuckets == {"no_doi", "problem_no_doi"}

(* The reference at position k of the list has an entry in the bucket b.   *)
CountedAs(k, buckets) ==
    /\ k <= Len(report.allRefs)
    /\ CountBucket(report.variant, report.allRefs[k].status) \in buckets

ExampleList == <<PlainWork, IndexedWork, DoiLessWork>>

ExampleCounts ==
    /\ report.counts.total = 3
    /\ \A b \in DOMAIN report.counts.by :
          report.counts.by[b] = IF b \in {"retracted", "ok"} \cup NoDoiBuckets
                                THEN 1 ELSE 0

Exported == report.pc = "exported" /\ report.rows # <<>>

DataRows == SubSeq(report.rows, 2, Len(report.rows))

(* The entries that are not ok, by descending score and ascending index    *)
(* within a score.                                                         *)
InSeverityOrder(rows) ==
    \A k \in 1..(Len(rows) - 1) :
       \/ ScoreOrZero(rows[k].status) > ScoreOrZero(rows[k + 1].status)
       \/ /\ ScoreOrZero(rows[k].status) = ScoreOrZero(rows[k + 1].status)
          /\ rows[k].idx < rows[k + 1].idx

OneRowEachNotOk ==
    /\ {DataRows[k] : k \in 1..Len(DataRows)} = NotOk(report.allRefs)
    /\ Len(DataRows) = Cardinality(NotOk(report.allRefs))

(* C27 as stated: an export is the header row, then one data row for each  *)
(* entry that is not ok, in the order of the severity-sorted subset, and   *)
(* no row for an ok entry.                                                 *)
C27_AsStated ==
    Exported =>
       /\ report.rows[1] = HeaderRow(report.variant)
       /\ OneRowEachNotOk
       /\ InSeverityOrder(DataRows)

(* C27: in v1 and the batched variant an export is the header row, then    *)
(* one data row for each entry of the interesting subset in its order; in  *)
(* v3 it is the header row, then one data row for every study, ok ones     *)
(* too, in index order.  With no entry to export there is no export.       *)
C27_ExportRows ==
    report.pc = "exported" =>
       IF report.variant = "v3"
       THEN IF report.allRefs = <<>> THEN report.rows = <<>>
            ELSE /\ report.rows # <<>>
                 /\ report.rows[1] = HeaderRow("v3")
                 /\ DataRows = report.allRefs
                 /\ \A k \in 1..Len(DataRows) : DataRows[k].idx = k
       ELSE IF NotOk(report.allRefs) = {} THEN report.rows = <<>>
            ELSE /\ report.rows # <<>>
                 /\ report.rows[1] = HeaderRow(report.variant)
                 /\ DataRows = report.interesting
                 /\ OneRowEachNotOk
                 /\ InSeverityOrder(DataRows)

C27_Witness ==
    /\ report.pc = "exported"
    /\ report.variant = "v1"
    /\ report.referenced = ExampleList
    /\ report.rows = <<HeaderRow("v1"), [idx |-> 2, status |-> "retracted"],
                       [idx |-> 3, status |-> "problem_no_doi"]>>

----------------------------------------------------------------------------
(* code.gs lines 254-268: the focal work lists no references.              *)

EmptyList == FocalFinal \in {WorkOk(FALSE, <<>>), WorkOk(TRUE, <<>>)}

(* C28: when the focal work comes with an empty reference list the row     *)
(* ends as NO REFERENCES FOUND with zero references evaluated, unless the  *)
(* work's own flag is set, and then as RETRACTED.                          *)
C28_EmptyList ==
    (FocalAnswered /\ EmptyList) =>
        /\ resolve.result.referencesEvaluated = <<0>>
        /\ resolve.result.retractedDoisText = <<>>
        /\ resolve.result.statusLabel =
              IF FocalFinal.is_retracted THEN "RETRACTED" ELSE "NO REFERENCES FOUND"

C28_Witness ==
    /\ FocalAnswered
    /\ FocalFinal = WorkOk(TRUE, <<>>)
    /\ resolve.result.statusLabel = "RETRACTED"
    /\ resolve.result.referencesEvaluated = <<0>>

----------------------------------------------------------------------------
(* code.gs lines 92-141: two executions of the runner over one sheet at    *)
(* the same time (two users, or a user and a trigger).  The code takes no  *)
(* lock.  The providers answer in one of two ways and the index does not   *)
(* load, which keeps the executions apart by nothing but their timing.     *)

SharedRows == 2

ConcurrentSheets ==
    {[i \in 1..n |-> PendingRow(ColumnAt(DoiColumnA, i))] : n \in 1..SharedRows}

ConcurrentWorlds == {w \in RunnerWorlds : w.name \in {"no references", "not found"}}

ConcurrentCaches ==
    {NoCache} \cup {getRetractionWatchCache_(NoCache, o) : o \in {Http(500)}}

Within ==
    \A r \in Runners :
       /\ last[r].world \in ConcurrentWorlds \cup {NoWorld}
       /\ rwCache[r] \in ConcurrentCaches

InitConcurrent ==
    /\ sheet \in ConcurrentSheets
    /\ RunnerAtRest
    /\ merge = NoMerge
    /\ resolve = NoResolve
    /\ classify = NoClassify
    /\ rwLoad = NoRwLoad
    /\ calc = NoCalc
    /\ report = NoReport

ConcurrentStep(r) ==
    \/ ProcessNextBatch(r)
    \/ BeginBatch(r)
    \/ LoopEnd(r)
    \/ SkipStep(r)
    \/ ProcessRow(r)
    \/ Return(r)

NextConcurrent == \E r \in Runners : ConcurrentStep(r) /\ Within'

SpecConcurrent == InitConcurrent /\ [][NextConcurrent]_vars

InBatch(r, i) == \E k \in 1..Len(batchRows[r]) : batchRows[r][k] = i

(* The execution r writes the results of row i in this step.               *)
Commits(r, i) == pc[r] = "loop" /\ batchRows'[r] = Append(batchRows[r], i)

(* C29: executions that overlap do not coordinate: each selects a row by   *)
(* the snapshot it read at its start and writes its result over whatever   *)
(* the sheet holds by then, so two of them can select, process and commit  *)
(* the same Pending row, the later commit replacing the earlier.           *)
C29_CommitsFromSnapshot ==
    [][\A r \in Runners : \A i \in 1..Len(sheet) :
          Commits(r, i) =>
             /\ i <= Len(data[r])
             /\ data[r][i].status = ""
             /\ selected'[i] = selected[i] + 1
             /\ sheet'[i].status # ""
             /\ sheet'[i].status =
                   checkReferencesForDoi_(Trim(data[r][i].doi), rwCache[r],
                                          last'[r].world).statusLabel
             /\ \A j \in 1..Len(sheet) : j # i => sheet'[j] = sheet[j]]_vars

C29_Witness ==
    \E i \in 1..Len(sheet) :
       /\ InBatch(1, i) /\ InBatch(2, i)
       /\ selected[i] = 2
       /\ Len(data[1]) >= i /\ data[1][i].status = ""
       /\ Len(data[2]) >= i /\ data[2][i].status = ""
       /\ last[1].row = i /\ last[2].row = i
       /\ last[1].world.name = "no references"
       /\ last[2].world.name = "not found"
       /\ sheet[i].status = "UNKNOWN"

----------------------------------------------------------------------------
(* app.js lines 975-984 (the quoting of the export) and lines 1172-1195,   *)
(* part_000 lines 89-112 (parseCsvLine): a line is a sequence of           *)
(* characters.                                                             *)

MaxFields == 2
MaxFieldLen == 2

Quote == "\""
Comma == ","

CsvChars == {"a", Comma, Quote}

FieldTexts == UNION {[1..n -> CsvChars] : n \in 0..MaxFieldLen}

FieldLists == UNION {[1..n -> FieldTexts] : n \in 1..MaxFields}

(* v.replace(/"/g, '""') *)
RECURSIVE DoubleQuotes(_)
DoubleQuotes(v) ==
    IF v = <<>> THEN <<>>
    ELSE (IF Head(v) = Quote THEN <<Quote, Quote>> ELSE <<Head(v)>>)
         \o DoubleQuotes(Tail(v))

(* `"${v}"` *)
QuoteField(val) == <<Quote>> \o DoubleQuotes(val) \o <<Quote>>

(* cols.map(...).join(",") *)
RECURSIVE CsvLine(_)
CsvLine(cols) ==
    IF cols = <<>> THEN <<>>
    ELSE IF Len(cols) = 1 THEN QuoteField(cols[1])
    ELSE QuoteField(cols[1]) \o <<Comma>> \o CsvLine(Tail(cols))

(* lines 1180 and 97: a quote inside quotes that another quote follows.    *)
EscapedQuoteNever(line, i, inQuotes) == FALSE

EscapedQuote(line, i, inQuotes) ==
    inQuotes /\ i + 1 <= Len(line) /\ line[i + 1] = Quote

(* The for loop of parseCsvLine from character i on.                       *)
RECURSIVE ParseFrom(_, _, _, _, _)
ParseFrom(line, i, cols, cur, inQuotes) ==
    IF i > Len(line) THEN Append(cols, cur)
    ELSE LET c == line[i]
         IN  IF c = Quote
             THEN IF EscapedQuote(line, i, inQuotes)
                  THEN ParseFrom(line, i + 2, cols, Append(cur, Quote), inQuotes)
                  ELSE ParseFrom(line, i + 1, cols, cur, ~inQuotes)
             ELSE IF c = Comma /\ ~inQuotes
             THEN ParseFrom(line, i + 1, Append(cols, cur), <<>>, inQuotes)
             ELSE ParseFrom(line, i + 1, cols, Append(cur, c), inQuotes)

parseCsvLine(line) == ParseFrom(line, 1, <<>>, <<>>, FALSE)

InitCsv ==
    /\ sheet = <<>>
    /\ RunnerAtRest
    /\ merge = NoMerge
    /\ resolve = NoResolve
    /\ classify = NoClassify
    /\ rwLoad = NoRwLoad
    /\ report = NoReport
    /\ \E fields \in FieldLists :
          calc = [pc |-> "fields", fields |-> fields, line |-> <<>>, cols |-> <<>>]

WriteLine ==
    /\ calc.pc = "fields"
    /\ calc' = [calc EXCEPT !.pc = "written", !.line = CsvLine(calc.fields)]
    /\ UNCHANGED <<runnerVars, merge, resolve, classify, rwLoad, report>>

ParseLine ==
    /\ calc.pc = "written"
    /\ calc' = [calc EXCEPT !.pc = "parsed", !.cols = parseCsvLine(calc.line)]
    /\ UNCHANGED <<runnerVars, merge, resolve, classify, rwLoad, report>>

NextCsv == WriteLine \/ ParseLine

SpecCsv == InitCsv /\ [][NextCsv]_vars

(* C30: parsing the line made of the fields, each wrapped in quotes with   *)
(* its quotes doubled, joined by commas, gives back the fields, whatever   *)
(* commas and quotes they hold.                                            *)
C30_RoundTrip == calc.pc = "parsed" => calc.cols = calc.fields

C30_Witness ==
    /\ calc.pc = "parsed"
    /\ calc.fields = << <<Quote, Comma>>, <<>> >>
    /\ calc.line = <<Quote, Quote, Quote, Comma, Quote, Comma, Quote, Quote>>
    /\ calc.cols = calc.fields

----------------------------------------------------------------------------
(* app.js lines 284-328 and 374-411 (v1), 2179-2225 and 2278-2321 (v3):    *)
(* the status an adapter reads from the list of signals of one record.     *)

MaxSignals == 3

UpdateTypes ==
    {"retraction", "expression of concern", "correction", "withdrawal", "new_version"}

PublicationTypes ==
    {"retracted publication", "retraction of publication", "expression of concern",
     "published erratum", "journal article"}

SignalLists(types) == UNION {[1..n -> types] : n \in 0..MaxSignals}

(* The status that one signal stands for.                                  *)
SignalStatus(signal) ==
    CASE signal \in {"retraction", "retracted publication", "retraction of publication"}
           -> "retracted"
      [] signal = "expression of concern" -> "expression_of_concern"
      [] signal \in {"correction", "erratum", "published erratum", "corrigendum"}
           -> "corrected"
      [] signal = "withdrawal" -> "withdrawn"
      [] OTHER -> "ok"

(* The orders in which the same signals can come.                          *)
Reorderings(signals) ==
    LET n == Len(signals)
    IN  {[k \in 1..n |-> signals[p[k]]] :
           p \in {f \in [1..n -> 1..n] : \A a, b \in 1..n : a # b => f[a] # f[b]}}

AdapterStatus(adapter, signals) ==
    IF adapter = "crossref"
    THEN determineRetractionStatusFromCrossref(CrossrefMessage(signals, "none")).status
    ELSE determineRetractionStatusFromPubMedSummary(<<"1">>, signals).status

InitSignals ==
    /\ sheet = <<>>
    /\ RunnerAtRest
    /\ merge = NoMerge
    /\ resolve = NoResolve
    /\ classify = NoClassify
    /\ rwLoad = NoRwLoad
    /\ report = NoReport
    /\ \/ \E signals \in SignalLists(UpdateTypes) :
            calc = [pc |-> "received", adapter |-> "crossref",
                    signals |-> signals, status |-> ""]
       \/ \E signals \in SignalLists(PublicationTypes) :
            calc = [pc |-> "received", adapter |-> "pubmed",
                    signals |-> signals, status |-> ""]

DetermineCrossref ==
    /\ calc.pc = "received"
    /\ calc.adapter = "crossref"
    /\ calc' = [calc EXCEPT !.pc = "determined",
                            !.status = AdapterStatus("crossref", calc.signals)]
    /\ UNCHANGED <<runnerVars, merge, resolve, classify, rwLoad, report>>

DeterminePubMed ==
    /\ calc.pc = "received"
    /\ calc.adapter = "pubmed"
    /\ calc' = [calc EXCEPT !.pc = "determined",
                            !.status = AdapterStatus("pubmed", calc.signals)]
    /\ UNCHANGED <<runnerVars, merge, resolve, classify, rwLoad, report>>

NextSignals == DetermineCrossref \/ DeterminePubMed

SpecSignals == InitSignals /\ [][NextSignals]_vars

Determined(adapter) == calc.pc = "determined" /\ calc.adapter = adapter

(* C31: the status read from the update entries of Crossref is the same    *)
(* in whatever order they come, and never less severe than any of them.    *)
C31_OrderIndependent ==
    Determined("crossref") =>
       /\ \A reordered \in Reorderings(calc.signals) :
             AdapterStatus("crossref", reordered) = calc.status
       /\ \A k \in 1..Len(calc.signals) :
             ScoreOrZero(calc.status) >= ScoreOrZero(SignalStatus(calc.signals[k]))

(* C32: the status read from the publication types of PubMed is the same   *)
(* in whatever order they come, and retracted whenever 'retracted          *)
(* publication' is among them.                                             *)
C32_OrderIndependent ==
    Determined("pubmed") =>
       /\ \A reordered \in Reorderings(calc.signals) :
             AdapterStatus("pubmed", reordered) = calc.status
       /\ (\E k \in 1..Len(calc.signals) : calc.signals[k] = "retracted publication")
             => calc.status = "retracted"

----------------------------------------------------------------------------
(* code.gs lines 116-141, 197-252, 72-81: rows whose check failed.         *)

FailedLabels == {"ERROR", "UNKNOWN"}

(* C33: every commit writes a status that is not empty, for a failed row   *)
(* (ERROR, UNKNOWN) too, and a row that failed keeps its result and is not *)
(* selected again in any step but a reset of the result columns.           *)
C33_FailedRowsStay ==
    [][/\ \A r \in Runners : \A i \in 1..Len(sheet) :
             Commits(r, i) => sheet'[i].status # ""
       /\ ResetResults \/
          \A i \in 1..Len(sheet) :
             sheet[i].status \in FailedLabels =>
                sheet'[i] = sheet[i] /\ selected'[i] = selected[i]]_vars

(* A row was rate limited through all retries and committed as ERROR; a    *)
(* later execution read it so, went past it and processed another row.     *)
C33_Witness ==
    /\ pc[1] = "loop"
    /\ batchRows[1] # <<>>
    /\ \E i \in 1..Len(data[1]) :
          /\ i < idx[1]
          /\ data[1][i].status = "ERROR"
          /\ Has429(data[1][i].reason)
          /\ sheet[i] = data[1][i]
          /\ selected[i] = 1

(* C34: an execution of the runner changes nothing of the sheet but the    *)
(* four result fields of the rows it processes: the sheet keeps its rows,  *)
(* every row keeps its DOI, and a row that is committed or has an empty    *)
(* DOI keeps all its fields.                                               *)
C34_Frame ==
    [][ResetResults \/
       /\ Len(sheet') = Len(sheet)
       /\ \A i \in 1..Len(sheet) :
             /\ sheet'[i].doi = sheet[i].doi
             /\ (Committed(sheet[i]) \/ Trim(sheet[i].doi) = <<>>) => sheet'[i] = sheet[i]
             /\ sheet'[i] # sheet[i] => \E r \in Runners : Commits(r, i)]_vars

(* An execution found its first row committed, went past a row without    *)
(* DOI and processed the row after it.                                     *)
C34_Witness ==
    /\ pc[1] = "ret"
    /\ batchRows[1] = <<3>>
    /\ Len(sheet) >= 3
    /\ Committed(data[1][1]) /\ sheet[1] = data[1][1]
    /\ sheet[2] = PendingRow(<<>>)
    /\ Committed(sheet[3]) /\ sheet[3].doi = data[1][3].doi

----------------------------------------------------------------------------
(* code.gs lines 254-268, 309-345, 404-424: the focal work is flagged as   *)
(* retracted by OpenAlex itself.                                           *)

SelfRetracted == FocalFinal \in {WorkOk(TRUE, <<>>), WorkOk(TRUE, Ids(2))}

(* C35: when the focal work was fetched and its own flag is set the row    *)
(* status is RETRACTED, whatever the requests for its references give.     *)
C35_SelfRetractionDominates ==
    (FocalAnswered /\ SelfRetracted) => resolve.result.statusLabel = "RETRACTED"

----------------------------------------------------------------------------
(* app.js lines 111-133, 601-626, 948-949, 1005-1061 (v1): the page from   *)
(* setup on: the index load, the form, the two buttons.                    *)

(* What the user can submit: nothing, a text that normalises to nothing,   *)
(* a DOI.                                                                  *)
Inputs == {"blank", "prefix only", "doi"}

(* The reference lists of the works the user analyses.                     *)
PageLists ==
    { <<PlainWork>>, <<IndexedWork, DoiLessWork>>,
      <<MissingWork, PlainWork, DoiLessWork>>,
      <<FlaggedDoiLessWork, IndexedWork>> }

(* How analyzeDoi can end for a DOI: fetchOpenAlexWorkByDoi throws (line   *)
(* 631), the work lists no reference (lines 677-680), or the references    *)
(* are classified (lines 690-739).                                         *)
AnalysisOutcomes ==
    {[kind |-> "threw", works |-> <<>>], [kind |-> "no references", works |-> <<>>]}
    \cup {[kind |-> "completed", works |-> works] : works \in PageLists}

(* lines 115-116 *)
ButtonDisabledWhileLoading(ready, busy) == ~ready

ButtonDisabled(ready, busy) == ~(ready /\ ~busy)

(* lines 612-613 *)
KeptAtStart(refs) == refs

ClearedAtStart(refs) == <<>>

(* setup has run (lines 1005-1033): the load is under way.  Whether the    *)
(* export button starts disabled is for the markup to say.                 *)
InitPage ==
    /\ sheet = <<>>
    /\ RunnerAtRest
    /\ merge = NoMerge
    /\ resolve = NoResolve
    /\ classify = NoClassify
    /\ rwLoad = NoRwLoad
    /\ calc = NoCalc
    /\ \E markup \in BOOLEAN :
          report = [pc |-> "idle", load |-> "loading",
                    analyzeReady |-> FALSE, analyzeBusy |-> FALSE,
                    analyzeDisabled |-> ButtonDisabled(FALSE, FALSE),
                    exportDisabled |-> markup,
                    input |-> "", currentInterestingRefs |-> <<>>,
                    counted |-> FALSE, ended |-> "none", rows |-> <<>>]

(* lines 1035-1039: ensureRetractionWatchIndex settles, loaded or not.     *)
LoadSettles ==
    /\ report.load = "loading"
    /\ \E outcome \in {"loaded", "failed"} :
          report' = [report EXCEPT
                       !.load = outcome,
                       !.analyzeReady = TRUE,
                       !.analyzeDisabled = ButtonDisabled(TRUE, report.analyzeBusy)]
    /\ UNCHANGED <<runnerVars, merge, resolve, classify, rwLoad, calc>>

(* lines 1041-1044: the form is submitted with nothing in it.              *)
SubmitBlank ==
    /\ ~report.analyzeDisabled
    /\ report.pc = "idle"
    /\ report' = [report EXCEPT !.input = "blank"]
    /\ UNCHANGED <<runnerVars, merge, resolve, classify, rwLoad, calc>>

(* lines 1041-1052 and 602-626: the handler and analyzeDoi up to its       *)
(* first request.                                                          *)
Submit ==
    /\ ~report.analyzeDisabled
    /\ report.pc = "idle"
    /\ \E input \in Inputs \ {"blank"} :
          report' = [report EXCEPT
                       !.pc = "running",
                       !.input = input,
                       !.analyzeBusy = TRUE,
                       !.analyzeDisabled = ButtonDisabled(report.analyzeReady, TRUE),
                       !.exportDisabled = TRUE,
                       !.currentInterestingRefs = ClearedAtStart(@),
                       !.counted = FALSE]
    /\ UNCHANGED <<runnerVars, merge, resolve, classify, rwLoad, calc>>

(* analyzeDoi returns or throws, and lines 1053-1061 run.                  *)
AnalysisEnds ==
    /\ report.pc = "running"
    /\ \E outcome \in IF report.input = "prefix only"
                      THEN {[kind |-> "empty input", works |-> <<>>]}
                      ELSE AnalysisOutcomes :
          LET refs == IF outcome.kind = "completed"
                      THEN Interesting("v1", Entries("v1", outcome.works))
                      ELSE report.currentInterestingRefs
          IN  report' = [report EXCEPT
                           !.pc = "idle",
                           !.ended = outcome.kind,
                           !.currentInterestingRefs = refs,
                           !.counted = (outcome.kind = "completed"),
                           !.analyzeBusy = FALSE,
                           !.analyzeDisabled = ButtonDisabled(report.analyzeReady, FALSE),
                           !.exportDisabled = (refs = <<>>)]
    /\ UNCHANGED <<runnerVars, merge, resolve, classify, rwLoad, calc>>

(* line 1063: a click on the export button.                                *)
ExportClick ==
    /\ ~report.exportDisabled
    /\ report' = [report EXCEPT
                    !.rows = IF report.currentInterestingRefs = <<>> THEN @
                             ELSE ExportRows("v1", <<>>, report.currentInterestingRefs)]
    /\ UNCHANGED <<runnerVars, merge, resolve, classify, rwLoad, calc>>

NextPage == LoadSettles \/ SubmitBlank \/ Submit \/ AnalysisEnds \/ ExportClick

(* The requests of the page settle.                                        *)
SpecPage ==
    InitPage /\ [][NextPage]_vars /\ WF_vars(LoadSettles) /\ WF_vars(AnalysisEnds)

OnPage == "load" \in DOMAIN report

LoadSettled == report.load # "loading"

AnalysisRunning == report.pc = "running"

(* C36: the Analyze button is enabled exactly when the index load has      *)
(* settled, loaded or not, and no analysis is running; analyzeReady        *)
(* becomes true in the end, and analyzeBusy is false again after every     *)
(* analysis, whether it returned or threw.                                 *)
C36_AnalyzeButton ==
    /\ [](OnPage =>
            /\ report.analyzeReady = LoadSettled
            /\ report.analyzeBusy = AnalysisRunning
            /\ report.analyzeDisabled = ~(LoadSettled /\ ~AnalysisRunning))
    /\ <>(OnPage /\ report.analyzeReady)
    /\ ((OnPage /\ report.analyzeBusy) ~> (OnPage /\ ~report.analyzeBusy))

(* The load failed, an analysis threw, and the button is enabled again.    *)
C36_Witness ==
    /\ OnPage
    /\ report.load = "failed"
    /\ report.ended = "threw"
    /\ report.pc = "idle"
    /\ ~report.analyzeBusy
    /\ ~report.analyzeDisabled

EndedWithoutResults == {"threw", "empty input", "no references"}

(* C37: an analysis clears the list and the counts before its first        *)
(* request, so while it runs, and after it threw or returned early, the    *)
(* list is empty, there are no counts and the export button is disabled.   *)
C37_NoStaleResults ==
    (OnPage /\ (AnalysisRunning \/ report.ended \in EndedWithoutResults)) =>
        /\ report.currentInterestingRefs = <<>>
        /\ ~report.counted
        /\ report.exportDisabled

(* An analysis gave references, which were exported; the next one threw.   *)
C37_Witness ==
    /\ OnPage
    /\ report.pc = "idle"
    /\ report.ended = "threw"
    /\ Len(report.rows) = 3
    /\ report.currentInterestingRefs = <<>>
    /\ report.exportDisabled

====
